---------------------------- MODULE Spec2Model ----------------------------
(***************************************************************************)
(* A model of zipflow, the streaming zipper (zipflow.c, zipflow.h).        *)
(*                                                                         *)
(* One session (zip_t) is driven through its API: zip_log, zip_entry,      *)
(* zip_meta, zip_data, zip_close.  Every byte leaves through zip_put; the  *)
(* model records each invocation of the put() callback in `out`.  The      *)
(* environment is the writer (which may fail at one call, after which it   *)
(* must never be called again), the file system zip_entry walks, and the   *)
(* zlib engine (crc32, deflate), which are modelled by what they do.       *)
(***************************************************************************)
EXTENDS Integers, Sequences, FiniteSets, TLC

(***************************************************************************)
(* Unsigned 32- and 64-bit quantities (uint32_t, uint64_t, size_t,         *)
(* unsigned) are written as a pair <<hi, lo>> of value hi * 65536 + lo     *)
(* with lo in 0..65535, so that values beyond 2^31 keep their magnitude.   *)
(***************************************************************************)
B16 == 65536

U64(n) == <<n \div B16, n % B16>>
Add64(a, b) == <<a[1] + b[1] + ((a[2] + b[2]) \div B16), (a[2] + b[2]) % B16>>
\* a - b, for a >= b
Sub64(a, b) ==
    IF a[2] >= b[2] THEN <<a[1] - b[1], a[2] - b[2]>>
    ELSE <<a[1] - b[1] - 1, a[2] + B16 - b[2]>>
Ge64(a, b) == a[1] > b[1] \/ (a[1] = b[1] /\ a[2] >= b[2])
Gt64(a, b) == a[1] > b[1] \/ (a[1] = b[1] /\ a[2] > b[2])
Min64(a, b) == IF Ge64(a, b) THEN b ELSE a
\* the value of a as a plain integer, for a < 2^31
ToInt(a) == a[1] * B16 + a[2]
ZERO == <<0, 0>>

(***************************************************************************)
(* Program constants.                                                      *)
(***************************************************************************)
MAX16 == 65535
MAX32 == <<65535, 65535>>
UINT_MAX == <<65535, 65535>>
CHUNK == 262144
\* ID is 3989422804 = 0xEDC9C2D4
ID == <<60873, 49876>>
OS == 3

\* zlib.h flush values and return codes, as used by zipflow.c.
Z_NO_FLUSH == 0
Z_FINISH == 4
Z_OK == 0
Z_STREAM_END == 1
Z_STREAM_ERROR == -2
Z_BUF_ERROR == -5

\* A pointer is the one-element tuple of what it points to; NULL is empty.
NULL == <<>>
IsNull(p) == Len(p) = 0
Ptr(v) == <<v>>

(***************************************************************************)
(* Bounds of the model.                                                    *)
(***************************************************************************)
\* API calls made in one session.
MaxCalls == 3

Min(a, b) == IF a < b THEN a ELSE b

(***************************************************************************)
(* zlib's crc32(): the CRC-32 of ISO 3309, reflected polynomial            *)
(* 0xEDB88320, computed bit by bit on the <<hi, lo>> halves.               *)
(* crc32(0, Z_NULL, 0) is 0.                                               *)
(***************************************************************************)
RECURSIVE Xor(_, _)
Xor(a, b) ==
    IF a = 0 THEN b
    ELSE IF b = 0 THEN a
    ELSE ((a + b) % 2) + 2 * Xor(a \div 2, b \div 2)

Xor32(a, b) == <<Xor(a[1], b[1]), Xor(a[2], b[2])>>
Shr1(a) == <<a[1] \div 2, (a[2] \div 2) + (a[1] % 2) * 32768>>
\* 0xEDB88320
CrcPoly == <<60856, 33568>>

RECURSIVE CrcBits(_, _)
CrcBits(c, k) ==
    IF k = 0 THEN c
    ELSE IF c[2] % 2 = 1 THEN CrcBits(Xor32(Shr1(c), CrcPoly), k - 1)
    ELSE CrcBits(Shr1(c), k - 1)

RECURSIVE CrcBytes(_, _, _)
CrcBytes(c, buf, len) ==
    IF len = 0 THEN c
    ELSE CrcBits(Xor32(CrcBytes(c, buf, len - 1), <<0, buf[len]>>), 8)

crc32(crc, buf, len) ==
    IF IsNull(buf) THEN ZERO
    ELSE Xor32(CrcBytes(Xor32(crc, MAX32), buf[1], len), MAX32)

(***************************************************************************)
(* zlib's deflate engine, by its contract.  strm holds the caller-visible  *)
(* counters avail_in and avail_out and the engine's own state: hold (input *)
(* taken but not yet encoded), pend (encoded bytes not yet delivered),     *)
(* status and last_flush.  The engine takes input as long as it has room   *)
(* to deliver, encodes two input bytes into one output byte, and on        *)
(* Z_FINISH ends the stream with the held byte and a two-byte end block    *)
(* (an empty stream is the two bytes 03 00).                               *)
(***************************************************************************)
RANK(f) == 2 * f - (IF f > 4 THEN 9 ELSE 0)

deflateReset(strm) ==
    [strm EXCEPT !.hold = 0, !.pend = 0, !.status = "BUSY", !.last_flush = -2]

deflate_block(s, flush) ==
    LET full(t) == IF t.avail_out = 0 THEN [t EXCEPT !.last_flush = -1] ELSE t
        end(t, d) ==
            [t EXCEPT !.hold = 0, !.pend = t.hold + 2 - d,
                      !.avail_out = @ - d, !.status = "FINISH"]
        done(t) ==
            [s |-> full(t),
             ret |-> IF t.avail_out = 0 THEN Z_OK ELSE Z_STREAM_END]
        take(n) ==
            [s EXCEPT !.avail_in = Sub64(@, U64(n)), !.hold = (s.hold + n) % 2,
                      !.avail_out = @ - ((s.hold + n) \div 2)]
        finish(t) == done(end(t, Min(t.hold + 2, t.avail_out)))
        block(n) ==
            IF flush = Z_FINISH /\ U64(n) = s.avail_in THEN finish(take(n))
            ELSE [s |-> full(take(n)), ret |-> Z_OK]
    IN  block(ToInt(Min64(s.avail_in, U64(2 * s.avail_out + 1 - s.hold))))

deflate(strm, flush) ==
    LET run(s1) ==
            IF strm.pend # 0 /\ s1.avail_out = 0
            THEN [s |-> [s1 EXCEPT !.last_flush = -1], ret |-> Z_OK]
            ELSE IF strm.pend = 0 /\ strm.avail_in = ZERO
                    /\ RANK(flush) <= RANK(strm.last_flush)
                    /\ flush # Z_FINISH
            THEN [s |-> s1, ret |-> Z_BUF_ERROR]
            ELSE IF strm.status = "FINISH" /\ strm.avail_in # ZERO
            THEN [s |-> s1, ret |-> Z_BUF_ERROR]
            ELSE IF strm.avail_in # ZERO \/ strm.hold # 0
                    \/ (flush # Z_NO_FLUSH /\ strm.status # "FINISH")
            THEN deflate_block(s1, flush)
            ELSE [s |-> s1,
                  ret |-> IF flush # Z_FINISH THEN Z_OK ELSE Z_STREAM_END]
        pending(d) ==
            run([strm EXCEPT !.last_flush = flush, !.pend = @ - d,
                             !.avail_out = @ - d])
    IN  IF strm.status = "FINISH" /\ flush # Z_FINISH
        THEN [s |-> strm, ret |-> Z_STREAM_ERROR]
        ELSE IF strm.avail_out = 0
        THEN [s |-> strm, ret |-> Z_BUF_ERROR]
        ELSE pending(Min(strm.pend, strm.avail_out))

(***************************************************************************)
(* The file system zip_entry() walks.  A path is the sequence of its       *)
(* components; its length in bytes counts one separator between them.      *)
(*   f     a regular file of two bytes                                     *)
(*   e     a regular file whose read fails after one byte                  *)
(*   u     a regular file that cannot be opened for reading                *)
(*   p     a pipe                 n   a name that does not exist           *)
(*   x     a directory that cannot be opened                               *)
(*   L     a regular file whose name has 65536 bytes                       *)
(*   d     a directory holding ., .., u, p, x, L, e and f                  *)
(***************************************************************************)
NameLen(name) ==
    CASE name = "L" -> 65536
      [] name = "M" -> 65535
      [] name = ".." -> 2
      [] OTHER -> 1

RECURSIVE PathLen(_)
PathLen(path) ==
    IF Len(path) = 1 THEN NameLen(path[1])
    ELSE PathLen(SubSeq(path, 1, Len(path) - 1)) + 1 + NameLen(path[Len(path)])

RegFile(data, errAt, readable) ==
    [type |-> "reg", data |-> data, errAt |-> errAt, readable |-> readable,
     st_mode |-> 33188, st_atime |-> 1700000000, st_mtime |-> 1600000000]

FS(path) ==
    LET name == path[Len(path)]
    IN  CASE name = "f" -> RegFile(<<104, 105>>, -1, TRUE)
          [] name = "e" -> RegFile(<<104, 105>>, 1, TRUE)
          [] name = "u" -> RegFile(<<104>>, -1, FALSE)
          [] name = "L" -> RegFile(<<104>>, -1, TRUE)
          [] name = "p" -> [type |-> "fifo"]
          [] name = "d" /\ Len(path) = 1 ->
                 [type |-> "dir", readable |-> TRUE,
                  names |-> <<".", "..", "u", "p", "x", "L", "e", "f">>]
          [] name = "x" -> [type |-> "dir", readable |-> FALSE, names |-> <<>>]
          [] OTHER -> [type |-> "none"]

\* fread(zip->data, 1, CHUNK, in) at position pos, and ferror(in) after it
fread(in, pos) ==
    LET limit == IF in.errAt >= 0 THEN in.errAt ELSE Len(in.data)
        n     == Min(CHUNK, limit - pos)
    IN  [n |-> n, buf |-> Ptr(SubSeq(in.data, pos + 1, pos + n)),
         ferror |-> in.errAt >= 0 /\ n < CHUNK]

(***************************************************************************)
(* The state.                                                              *)
(*   zip    the session, a zip_t: head holds the hnum completed records,   *)
(*          slot is head[hnum], the record of the entry being written      *)
(*   out    every invocation of the put() callback, in order               *)
(*   heap   the entry-name allocations, each with the times it was freed   *)
(*   msgs   the diagnostics issued through zip_msg()                       *)
(*   trap   the assertion that aborted the program, if any                 *)
(*   call   the last API call made, ret its return value                   *)
(*   calls  the number of API calls made                                   *)
(***************************************************************************)
VARIABLES zip, out, heap, msgs, trap, call, ret, calls

vars == <<zip, out, heap, msgs, trap, call, ret, calls>>

\* What the C functions read and write: they take and return this record.
\* wfail is the environment of the call: the writer fails at the invocation
\* that would be the wfail-th of the session (0: it does not fail).
World(wfail) ==
    [z |-> zip, out |-> out, heap |-> heap, msgs |-> msgs, trap |-> trap,
     wfail |-> wfail]

\* head[hnum + 1] after hnum++: memory nothing has written yet
UNINIT ==
    [name |-> 0, nlen |-> 0, os |-> 0, ulen |-> ZERO, clen |-> ZERO,
     crc |-> ZERO, mode |-> ZERO, ctime |-> ZERO, atime |-> ZERO,
     mtime |-> ZERO, off |-> ZERO]

zip_msg(w, text) ==
    [w EXCEPT !.msgs = Append(@, [text |-> text,
                                  to |-> IF IsNull(w.z.log) THEN "stderr"
                                         ELSE "log"])]

\* assert(cond && text): the program aborts when cond is false
assert(w, cond, text) == IF cond \/ w.trap # "" THEN w ELSE [w EXCEPT !.trap = text]

\* One invocation of put(): the buffer at ptr (kind: the part of the archive,
\* ent: the name allocation of the entry it belongs to or, in an end record,
\* the number of entries it gives, fin: the deflate stream ends in it, data:
\* the fields stored in it), whether ptr was NULL, the size and flag passed,
\* and whether put() returned 0.
PutRecord(ptr, size, flag, ok) ==
    IF IsNull(ptr)
    THEN [kind |-> "", ent |-> 0, fin |-> FALSE, data |-> <<>>, null |-> TRUE,
          size |-> size, flag |-> flag, ok |-> ok]
    ELSE [kind |-> ptr[1].kind, ent |-> ptr[1].ent, fin |-> ptr[1].fin,
          data |-> ptr[1].data, null |-> FALSE, size |-> size, flag |-> flag,
          ok |-> ok]

\* zip_write() that issues no message
zip_write_silent(w, ptr, size, flag) ==
    LET returns(r) ==
            [w |-> [w EXCEPT !.out =
                       Append(@, PutRecord(ptr, size, flag, r = 0))],
             ret |-> r]
    IN  returns(IF Len(w.out) + 1 = w.wfail /\ (size > 0 \/ flag = 2) THEN 1
                ELSE 0)

\* The default put(): fwrite() to zip->out, fflush() at the end of the stream.
zip_write(w, ptr, size, flag) ==
    LET returns(r) ==
            [w |-> IF r # 0
                   THEN zip_msg([w EXCEPT !.out =
                                    Append(@, PutRecord(ptr, size, flag, FALSE))],
                                "write error")
                   ELSE [w EXCEPT !.out =
                            Append(@, PutRecord(ptr, size, flag, TRUE))],
             ret |-> r]
    IN  returns(IF Len(w.out) + 1 = w.wfail /\ (size > 0 \/ flag = 2) THEN 1
                ELSE 0)

\* A put() the user registered with zip_pipe().
user_put(w, ptr, size, flag) ==
    LET returns(r) ==
            [w |-> [w EXCEPT !.out =
                       Append(@, PutRecord(ptr, size, flag, r = 0))],
             ret |-> r]
    IN  returns(IF Len(w.out) + 1 = w.wfail THEN 1 ELSE 0)

\* zip_put() that counts the bytes of a failed write
zip_put_counts_failed(w, ptr, size, flag) ==
    LET returned(r) ==
            IF r.ret # 0
            THEN [r.w EXCEPT !.z.bad = 1, !.z.off = Add64(@, U64(size))]
            ELSE [r.w EXCEPT !.z.off = Add64(@, U64(size))]
    IN  IF w.z.bad # 0 THEN w
        ELSE returned(IF w.z.put = "zip_write"
                      THEN zip_write(w, ptr, size, flag)
                      ELSE user_put(w, ptr, size, flag))

\* zip_put() without its test of zip->bad
zip_put_unlatched(w, ptr, size, flag) ==
    LET returned(r) ==
            IF r.ret # 0 THEN [r.w EXCEPT !.z.bad = 1]
            ELSE [r.w EXCEPT !.z.off = Add64(@, U64(size))]
    IN  returned(IF w.z.put = "zip_write"
                 THEN zip_write(w, ptr, size, flag)
                 ELSE user_put(w, ptr, size, flag))

zip_put(w, ptr, size, flag) ==
    LET returned(r) ==
            IF r.ret # 0 THEN [r.w EXCEPT !.z.bad = 1]
            ELSE [r.w EXCEPT !.z.off = Add64(@, U64(size))]
    IN  IF w.z.bad # 0 THEN w
        ELSE returned(IF w.z.put = "zip_write"
                      THEN zip_write(w, ptr, size, flag)
                      ELSE user_put(w, ptr, size, flag))

\* A pointer to a buffer of the archive, and to one whose fields the model
\* does not look at.
Buf(kind, ent, data) ==
    Ptr([kind |-> kind, ent |-> ent, fin |-> FALSE, data |-> data])
Rec(kind, ent) == Buf(kind, ent, <<>>)
\* zip->comp after a call of deflate() that returned ret
Comp(ent, code) ==
    Ptr([kind |-> "deflate", ent |-> ent, fin |-> code = Z_STREAM_END,
         data |-> <<>>])

\* PUT2, PUT4, PUT8: the 16-bit words stored, the least significant first.
\* v is an integer for PUT2 and a pair <<hi, lo>> for PUT4 and PUT8.
PUT2(v) == <<v % B16>>
PUT4(v) == <<v[2], v[1] % B16>>
PUT8(v) ==
    <<v[2], v[1] % B16, (v[1] \div B16) % B16, (v[1] \div B16) \div B16>>

\* the two bytes PUT2 stores at p[0] and p[1] for v
PUT2_bytes(v) == <<v % 256, (v \div 256) % 256>>

\* LEVEL() that tells the best compression from the rest only
LEVEL_best_only(z) == IF z.level >= 9 THEN 2 ELSE 0

\* LEVEL() with the codes of the levels 1 and 2 exchanged
LEVEL_swapped(z) ==
    IF z.level >= 9 THEN 2
    ELSE IF z.level = 2 THEN 6
    ELSE IF z.level = 1 THEN 4
    ELSE 0

\* LEVEL(): the compression level in the general purpose bit flag
LEVEL(z) ==
    IF z.level >= 9 THEN 2
    ELSE IF z.level = 2 THEN 4
    ELSE IF z.level = 1 THEN 6
    ELSE 0

zip_init(level) ==
    [handle |-> NULL, put |-> "", out |-> NULL, off |-> ZERO, id |-> ID,
     bad |-> 0, omit |-> 0, feed |-> 0, level |-> level, plen |-> 0,
     pmax |-> 512, path |-> <<>>, hnum |-> 0, hmax |-> 512, head |-> <<>>,
     slot |-> UNINIT, hook |-> NULL, log |-> NULL,
     strm |-> [avail_in |-> ZERO, avail_out |-> 0, hold |-> 0, pend |-> 0,
               status |-> "BUSY", last_flush |-> -2]]

\* zip_local() that writes the name before the header
zip_local_name_first(w) ==
    LET head == w.z.slot
        local ==
            [sig |-> PUT4(U64(67324752)),
             need |-> PUT2(IF Ge64(head.off, MAX32) THEN 45 ELSE 20),
             flags |-> PUT2(2056 + LEVEL(w.z)),
             method |-> PUT2(8),
             crc |-> PUT4(ZERO),
             clen |-> PUT4(ZERO),
             ulen |-> PUT4(ZERO),
             nlen |-> PUT2(head.nlen),
             xlen |-> PUT2(0)]
    IN  zip_put(zip_put(w, Buf("name", head.name, w.heap[head.name].text),
                        head.nlen, 1),
                Buf("local", head.name, local), 30, 0)

\* The buffers hold the fields the code stores, but for the DOS time and date.
zip_local(w) ==
    LET head == w.z.slot
        local ==
            [sig |-> PUT4(U64(67324752)),
             need |-> PUT2(IF Ge64(head.off, MAX32) THEN 45 ELSE 20),
             flags |-> PUT2(2056 + LEVEL(w.z)),
             method |-> PUT2(8),
             crc |-> PUT4(ZERO),
             clen |-> PUT4(ZERO),
             ulen |-> PUT4(ZERO),
             nlen |-> PUT2(head.nlen),
             xlen |-> PUT2(0)]
    IN  zip_put(zip_put(w, Buf("local", head.name, local), 30, 0),
                Buf("name", head.name, w.heap[head.name].text), head.nlen, 1)

\* the do-while loop of zip_deflate(): pos is the position in the file in
RECURSIVE zip_deflate_loop(_, _, _, _)
zip_deflate_loop(w, in, pos, eof) ==
    LET reset(w5) ==
            IF w5.trap # "" THEN w5
            ELSE [w5 EXCEPT !.z.strm = deflateReset(@)]
        count(w4, r, pos1, eof1) ==
            IF r.ret = Z_OK THEN zip_deflate_loop(w4, in, pos1, eof1)
            ELSE reset(assert(w4, r.ret = Z_STREAM_END, "internal error"))
        written(w3, r, pos1, eof1) ==
            IF w3.z.bad # 0 THEN w3
            ELSE count([w3 EXCEPT !.z.slot.clen =
                           Add64(@, U64(CHUNK - r.s.avail_out))],
                       r, pos1, eof1)
        compressed(w2, r, pos1, eof1) ==
            written(zip_put([w2 EXCEPT !.z.strm = r.s],
                            Comp(w2.z.slot.name, r.ret),
                            CHUNK - r.s.avail_out, 1),
                    r, pos1, eof1)
        compress(w2, pos1, eof1) ==
            compressed(w2, deflate([w2.z.strm EXCEPT !.avail_out = CHUNK],
                                   IF eof1 THEN Z_FINISH ELSE Z_NO_FLUSH),
                       pos1, eof1)
        short(w1, rd) ==
            IF rd.n < CHUNK /\ rd.ferror
            THEN [zip_msg(w1, "read error") EXCEPT !.z.omit = 1]
            ELSE w1
        read(rd) ==
            compress(short([w EXCEPT !.z.strm.avail_in = U64(rd.n),
                                     !.z.slot.ulen = Add64(@, U64(rd.n)),
                                     !.z.slot.crc = crc32(@, rd.buf, rd.n)],
                           rd),
                     pos + rd.n, rd.n < CHUNK)
    IN  IF w.z.strm.avail_in = ZERO /\ ~eof THEN read(fread(in, pos))
        ELSE compress(w, pos, eof)

zip_deflate(w, in) ==
    zip_deflate_loop([w EXCEPT !.z.slot.ulen = ZERO, !.z.slot.clen = ZERO,
                               !.z.slot.crc = crc32(ZERO, NULL, 0),
                               !.z.strm.avail_in = ZERO],
                     in, 0, FALSE)

\* zip_desc() that does not look at the offset of the local header
zip_desc_sizes_only(w) ==
    LET head == w.z.slot
    IN  IF Ge64(head.ulen, MAX32) \/ Ge64(head.clen, MAX32)
        THEN zip_put(w, Buf("desc", head.name,
                            [sig |-> PUT4(U64(134695760)),
                             crc |-> PUT4(head.crc),
                             clen |-> PUT8(head.clen),
                             ulen |-> PUT8(head.ulen)]),
                     24, 1)
        ELSE zip_put(w, Buf("desc", head.name,
                            [sig |-> PUT4(U64(134695760)),
                             crc |-> PUT4(head.crc),
                             clen |-> PUT4(head.clen),
                             ulen |-> PUT4(head.ulen)]),
                     16, 1)

zip_desc(w) ==
    LET head == w.z.slot
    IN  IF Ge64(head.ulen, MAX32) \/ Ge64(head.clen, MAX32)
           \/ Ge64(head.off, MAX32)
        THEN zip_put(w, Buf("desc", head.name,
                            [sig |-> PUT4(U64(134695760)),
                             crc |-> PUT4(head.crc),
                             clen |-> PUT8(head.clen),
                             ulen |-> PUT8(head.ulen)]),
                     24, 1)
        ELSE zip_put(w, Buf("desc", head.name,
                            [sig |-> PUT4(U64(134695760)),
                             crc |-> PUT4(head.crc),
                             clen |-> PUT4(head.clen),
                             ulen |-> PUT4(head.ulen)]),
                     16, 1)

zip_next(w) ==
    IF w.z.hnum = w.z.hmax THEN [w EXCEPT !.z.hmax = 2 * @] ELSE w

\* An allocation is named by its place in heap.  It holds its size, the text
\* copied into it, the times it was freed and how many invocations of put()
\* had been made when it was last freed.
malloc(w, len) ==
    [w EXCEPT !.heap = Append(@, [len |-> len, text |-> <<>>, frees |-> 0,
                                  at |-> 0])]
memcpy(w, name, path) == [w EXCEPT !.heap[name].text = path]
free(w, name) ==
    [w EXCEPT !.heap[name].frees = @ + 1, !.heap[name].at = Len(w.out)]

\* zip_file() that counts the entry whether or not zip->omit is set
zip_file_keep(w) ==
    LET count(w3) ==
            [w3 EXCEPT !.z.hnum = @ + 1,
                       !.z.head = Append(@, w3.z.slot),
                       !.z.slot = UNINIT,
                       !.z.omit = 0]
        deflated(w2) == IF w2.trap # "" THEN w2 ELSE count(zip_desc(w2))
        write(w1, in) == deflated(zip_deflate(zip_local(w1), in))
        opened(in) ==
            IF ~in.readable
            THEN zip_msg(w, "could not open for reading")
            ELSE write([memcpy(malloc(w, w.z.plen + 1), Len(w.heap) + 1,
                               w.z.path) EXCEPT
                           !.z.slot.name = Len(w.heap) + 1,
                           !.z.slot.nlen = w.z.plen % 65536,
                           !.z.slot.off = w.z.off],
                       in)
    IN  IF w.z.plen > 65535
        THEN zip_msg(w, "file name is too long")
        ELSE opened(FS(w.z.path))

\* zip_file() that leaves zip->omit set after it discarded an entry
zip_file_omit_stuck(w) ==
    LET count(w3) ==
            IF w3.z.omit # 0
            THEN free(w3, w3.z.slot.name)
            ELSE [w3 EXCEPT !.z.hnum = @ + 1,
                            !.z.head = Append(@, w3.z.slot),
                            !.z.slot = UNINIT]
        deflated(w2) == IF w2.trap # "" THEN w2 ELSE count(zip_desc(w2))
        write(w1, in) == deflated(zip_deflate(zip_local(w1), in))
        opened(in) ==
            IF ~in.readable
            THEN zip_msg(w, "could not open for reading")
            ELSE write([memcpy(malloc(w, w.z.plen + 1), Len(w.heap) + 1,
                               w.z.path) EXCEPT
                           !.z.slot.name = Len(w.heap) + 1,
                           !.z.slot.nlen = w.z.plen % 65536,
                           !.z.slot.off = w.z.off],
                       in)
    IN  IF w.z.plen > 65535
        THEN zip_msg(w, "file name is too long")
        ELSE opened(FS(w.z.path))

\* zip_file() that sets omit when the file cannot be opened
zip_file_skip_sets_omit(w) ==
    LET count(w3) ==
            IF w3.z.omit # 0
            THEN [free(w3, w3.z.slot.name) EXCEPT !.z.omit = 0]
            ELSE [w3 EXCEPT !.z.hnum = @ + 1,
                            !.z.head = Append(@, w3.z.slot),
                            !.z.slot = UNINIT]
        deflated(w2) == IF w2.trap # "" THEN w2 ELSE count(zip_desc(w2))
        write(w1, in) == deflated(zip_deflate(zip_local(w1), in))
        opened(in) ==
            IF ~in.readable
            THEN [zip_msg(w, "could not open for reading") EXCEPT !.z.omit = 1]
            ELSE write([memcpy(malloc(w, w.z.plen + 1), Len(w.heap) + 1,
                               w.z.path) EXCEPT
                           !.z.slot.name = Len(w.heap) + 1,
                           !.z.slot.nlen = w.z.plen % 65536,
                           !.z.slot.off = w.z.off],
                       in)
    IN  IF w.z.plen > 65535
        THEN zip_msg(w, "file name is too long")
        ELSE opened(FS(w.z.path))

\* zip_file() that leaves the offset of the local header at zero
zip_file_offset_zero(w) ==
    LET count(w3) ==
            IF w3.z.omit # 0
            THEN [free(w3, w3.z.slot.name) EXCEPT !.z.omit = 0]
            ELSE [w3 EXCEPT !.z.hnum = @ + 1,
                            !.z.head = Append(@, w3.z.slot),
                            !.z.slot = UNINIT]
        deflated(w2) == IF w2.trap # "" THEN w2 ELSE count(zip_desc(w2))
        write(w1, in) == deflated(zip_deflate(zip_local(w1), in))
        opened(in) ==
            IF ~in.readable
            THEN zip_msg(w, "could not open for reading")
            ELSE write([memcpy(malloc(w, w.z.plen + 1), Len(w.heap) + 1,
                               w.z.path) EXCEPT
                           !.z.slot.name = Len(w.heap) + 1,
                           !.z.slot.nlen = w.z.plen % 65536,
                           !.z.slot.off = ZERO],
                       in)
    IN  IF w.z.plen > 65535
        THEN zip_msg(w, "file name is too long")
        ELSE opened(FS(w.z.path))

\* zip_file() that counts no entry once a write has failed
zip_file_drop_on_error(w) ==
    LET count(w3) ==
            IF w3.z.omit # 0 \/ w3.z.bad # 0
            THEN [free(w3, w3.z.slot.name) EXCEPT !.z.omit = 0]
            ELSE [w3 EXCEPT !.z.hnum = @ + 1,
                            !.z.head = Append(@, w3.z.slot),
                            !.z.slot = UNINIT]
        deflated(w2) == IF w2.trap # "" THEN w2 ELSE count(zip_desc(w2))
        write(w1, in) == deflated(zip_deflate(zip_local(w1), in))
        opened(in) ==
            IF ~in.readable
            THEN zip_msg(w, "could not open for reading")
            ELSE write([memcpy(malloc(w, w.z.plen + 1), Len(w.heap) + 1,
                               w.z.path) EXCEPT
                           !.z.slot.name = Len(w.heap) + 1,
                           !.z.slot.nlen = w.z.plen % 65536,
                           !.z.slot.off = w.z.off],
                       in)
    IN  IF w.z.plen > 65535
        THEN zip_msg(w, "file name is too long")
        ELSE opened(FS(w.z.path))

\* zip_file() that clears omit only when no write has failed
zip_file_omit_kept_on_error(w) ==
    LET count(w3) ==
            IF w3.z.omit # 0
            THEN [free(w3, w3.z.slot.name) EXCEPT !.z.omit = w3.z.bad]
            ELSE [w3 EXCEPT !.z.hnum = @ + 1,
                            !.z.head = Append(@, w3.z.slot),
                            !.z.slot = UNINIT]
        deflated(w2) == IF w2.trap # "" THEN w2 ELSE count(zip_desc(w2))
        write(w1, in) == deflated(zip_deflate(zip_local(w1), in))
        opened(in) ==
            IF ~in.readable
            THEN zip_msg(w, "could not open for reading")
            ELSE write([memcpy(malloc(w, w.z.plen + 1), Len(w.heap) + 1,
                               w.z.path) EXCEPT
                           !.z.slot.name = Len(w.heap) + 1,
                           !.z.slot.nlen = w.z.plen % 65536,
                           !.z.slot.off = w.z.off],
                       in)
    IN  IF w.z.plen > 65535
        THEN zip_msg(w, "file name is too long")
        ELSE opened(FS(w.z.path))

zip_file(w) ==
    LET count(w3) ==
            IF w3.z.omit # 0
            THEN [free(w3, w3.z.slot.name) EXCEPT !.z.omit = 0]
            ELSE [w3 EXCEPT !.z.hnum = @ + 1,
                            !.z.head = Append(@, w3.z.slot),
                            !.z.slot = UNINIT]
        deflated(w2) == IF w2.trap # "" THEN w2 ELSE count(zip_desc(w2))
        write(w1, in) == deflated(zip_deflate(zip_local(w1), in))
        opened(in) ==
            IF ~in.readable
            THEN zip_msg(w, "could not open for reading")
            ELSE write([memcpy(malloc(w, w.z.plen + 1), Len(w.heap) + 1,
                               w.z.path) EXCEPT
                           !.z.slot.name = Len(w.heap) + 1,
                           !.z.slot.nlen = w.z.plen % 65536,
                           !.z.slot.off = w.z.off],
                       in)
    IN  IF w.z.plen > 65535
        THEN zip_msg(w, "file name is too long")
        ELSE opened(FS(w.z.path))

RECURSIVE Grow(_, _)
Grow(need, want) == IF need < want THEN Grow(2 * need, want) ELSE need

zip_room(w, want) == [w EXCEPT !.z.pmax = Grow(@, want)]

RECURSIVE zip_scan(_)
RECURSIVE zip_scan_dir(_, _, _, _)

\* the readdir() loop of zip_scan() over the names left in the directory dir,
\* whose path is len bytes long
zip_scan_dir(w, dir, len, names) ==
    LET entry(name, nlen) ==
            IF name = "." \/ name = ".."
            THEN zip_scan_dir(w, dir, len, Tail(names))
            ELSE zip_scan_dir(
                     zip_scan([zip_room(w, len + 1 + nlen + 1) EXCEPT
                                  !.z.path = Append(dir, name),
                                  !.z.plen = len + 1 + nlen]),
                     dir, len, Tail(names))
    IN  IF names = <<>> \/ w.trap # "" THEN w
        ELSE entry(Head(names), NameLen(Head(names)))

zip_scan(w) ==
    LET scan(st) ==
            IF st.type = "none"
            THEN zip_msg(w, "could not stat")
            ELSE IF st.type = "dir"
            THEN IF ~st.readable
                 THEN zip_msg(w, "could not open directory")
                 ELSE [zip_scan_dir(w, w.z.path, w.z.plen, st.names) EXCEPT
                          !.z.path = w.z.path, !.z.plen = w.z.plen]
            ELSE IF st.type # "reg"
            THEN zip_msg(w, "is not a file or directory")
            ELSE zip_file([zip_next(w) EXCEPT
                              !.z.slot.os = OS,
                              !.z.slot.mode = <<st.st_mode % 65536, 0>>,
                              !.z.slot.atime = U64(st.st_atime),
                              !.z.slot.mtime = U64(st.st_mtime)])
    IN  scan(FS(w.z.path))

\* zip_central() that stores the compressed length first in the zip64 field
zip_central_clen_first(w, head) ==
    LET clamp(v) == IF Ge64(v, MAX32) THEN MAX32 ELSE v
        zip64(n) ==
            IF n = 0 THEN <<>>
            ELSE PUT2(1) \o PUT2(n)
                 \o (IF Ge64(head.clen, MAX32) THEN PUT8(head.clen) ELSE <<>>)
                 \o (IF Ge64(head.ulen, MAX32) THEN PUT8(head.ulen) ELSE <<>>)
                 \o (IF Ge64(head.off, MAX32) THEN PUT8(head.off) ELSE <<>>)
        stamp ==
            IF head.os = 3
            THEN PUT2(13) \o PUT2(8) \o PUT4(head.atime) \o PUT4(head.mtime)
            ELSE PUT2(10) \o PUT2(32) \o PUT4(ZERO) \o PUT2(1) \o PUT2(24)
                 \o PUT8(head.mtime) \o PUT8(head.atime) \o PUT8(head.ctime)
        central(zlen, xlen) ==
            [sig |-> PUT4(U64(33639248)),
             made |-> PUT2(head.os * 256 + 45),
             need |-> PUT2(IF zlen # 0 THEN 45 ELSE 20),
             flags |-> PUT2(2056 + LEVEL(w.z)),
             method |-> PUT2(8),
             crc |-> PUT4(head.crc),
             clen |-> PUT4(clamp(head.clen)),
             ulen |-> PUT4(clamp(head.ulen)),
             nlen |-> PUT2(head.nlen),
             xlen |-> PUT2(zlen + xlen),
             comment |-> PUT2(0),
             disk |-> PUT2(0),
             iattr |-> PUT2(0),
             mode |-> PUT4(head.mode),
             off |-> PUT4(clamp(head.off))]
        write(n, zlen, xlen) ==
            zip_put(
              zip_put(
                zip_put(
                  zip_put(w, Buf("central", head.name, central(zlen, xlen)),
                          46, 0),
                  Buf("cname", head.name, w.heap[head.name].text),
                  head.nlen, 0),
                Buf("zip64", head.name, zip64(n)), zlen, 0),
              Buf("stamp", head.name, stamp), xlen, 1)
        extra(n) ==
            write(n, IF n # 0 THEN n + 4 ELSE 0, IF head.os = 3 THEN 12 ELSE 36)
    IN  extra((IF Ge64(head.ulen, MAX32) THEN 8 ELSE 0)
              + (IF Ge64(head.clen, MAX32) THEN 8 ELSE 0)
              + (IF Ge64(head.off, MAX32) THEN 8 ELSE 0))

\* zip_central() that stores the modify time before the access time
zip_central_mtime_first(w, head) ==
    LET clamp(v) == IF Ge64(v, MAX32) THEN MAX32 ELSE v
        zip64(n) ==
            IF n = 0 THEN <<>>
            ELSE PUT2(1) \o PUT2(n)
                 \o (IF Ge64(head.ulen, MAX32) THEN PUT8(head.ulen) ELSE <<>>)
                 \o (IF Ge64(head.clen, MAX32) THEN PUT8(head.clen) ELSE <<>>)
                 \o (IF Ge64(head.off, MAX32) THEN PUT8(head.off) ELSE <<>>)
        stamp ==
            IF head.os = 3
            THEN PUT2(13) \o PUT2(8) \o PUT4(head.mtime) \o PUT4(head.atime)
            ELSE PUT2(10) \o PUT2(32) \o PUT4(ZERO) \o PUT2(1) \o PUT2(24)
                 \o PUT8(head.mtime) \o PUT8(head.atime) \o PUT8(head.ctime)
        central(zlen, xlen) ==
            [sig |-> PUT4(U64(33639248)),
             made |-> PUT2(head.os * 256 + 45),
             need |-> PUT2(IF zlen # 0 THEN 45 ELSE 20),
             flags |-> PUT2(2056 + LEVEL(w.z)),
             method |-> PUT2(8),
             crc |-> PUT4(head.crc),
             clen |-> PUT4(clamp(head.clen)),
             ulen |-> PUT4(clamp(head.ulen)),
             nlen |-> PUT2(head.nlen),
             xlen |-> PUT2(zlen + xlen),
             comment |-> PUT2(0),
             disk |-> PUT2(0),
             iattr |-> PUT2(0),
             mode |-> PUT4(head.mode),
             off |-> PUT4(clamp(head.off))]
        write(n, zlen, xlen) ==
            zip_put(
              zip_put(
                zip_put(
                  zip_put(w, Buf("central", head.name, central(zlen, xlen)),
                          46, 0),
                  Buf("cname", head.name, w.heap[head.name].text),
                  head.nlen, 0),
                Buf("zip64", head.name, zip64(n)), zlen, 0),
              Buf("stamp", head.name, stamp), xlen, 1)
        extra(n) ==
            write(n, IF n # 0 THEN n + 4 ELSE 0, IF head.os = 3 THEN 12 ELSE 36)
    IN  extra((IF Ge64(head.ulen, MAX32) THEN 8 ELSE 0)
              + (IF Ge64(head.clen, MAX32) THEN 8 ELSE 0)
              + (IF Ge64(head.off, MAX32) THEN 8 ELSE 0))

\* zip_central() that decides the version needed as zip_local() does
zip_central_need_by_offset(w, head) ==
    LET clamp(v) == IF Ge64(v, MAX32) THEN MAX32 ELSE v
        zip64(n) ==
            IF n = 0 THEN <<>>
            ELSE PUT2(1) \o PUT2(n)
                 \o (IF Ge64(head.ulen, MAX32) THEN PUT8(head.ulen) ELSE <<>>)
                 \o (IF Ge64(head.clen, MAX32) THEN PUT8(head.clen) ELSE <<>>)
                 \o (IF Ge64(head.off, MAX32) THEN PUT8(head.off) ELSE <<>>)
        stamp ==
            IF head.os = 3
            THEN PUT2(13) \o PUT2(8) \o PUT4(head.atime) \o PUT4(head.mtime)
            ELSE PUT2(10) \o PUT2(32) \o PUT4(ZERO) \o PUT2(1) \o PUT2(24)
                 \o PUT8(head.mtime) \o PUT8(head.atime) \o PUT8(head.ctime)
        central(zlen, xlen) ==
            [sig |-> PUT4(U64(33639248)),
             made |-> PUT2(head.os * 256 + 45),
             need |-> PUT2(IF Ge64(head.off, MAX32) THEN 45 ELSE 20),
             flags |-> PUT2(2056 + LEVEL(w.z)),
             method |-> PUT2(8),
             crc |-> PUT4(head.crc),
             clen |-> PUT4(clamp(head.clen)),
             ulen |-> PUT4(clamp(head.ulen)),
             nlen |-> PUT2(head.nlen),
             xlen |-> PUT2(zlen + xlen),
             comment |-> PUT2(0),
             disk |-> PUT2(0),
             iattr |-> PUT2(0),
             mode |-> PUT4(head.mode),
             off |-> PUT4(clamp(head.off))]
        write(n, zlen, xlen) ==
            zip_put(
              zip_put(
                zip_put(
                  zip_put(w, Buf("central", head.name, central(zlen, xlen)),
                          46, 0),
                  Buf("cname", head.name, w.heap[head.name].text),
                  head.nlen, 0),
                Buf("zip64", head.name, zip64(n)), zlen, 0),
              Buf("stamp", head.name, stamp), xlen, 1)
        extra(n) ==
            write(n, IF n # 0 THEN n + 4 ELSE 0, IF head.os = 3 THEN 12 ELSE 36)
    IN  extra((IF Ge64(head.ulen, MAX32) THEN 8 ELSE 0)
              + (IF Ge64(head.clen, MAX32) THEN 8 ELSE 0)
              + (IF Ge64(head.off, MAX32) THEN 8 ELSE 0))

zip_central(w, head) ==
    LET clamp(v) == IF Ge64(v, MAX32) THEN MAX32 ELSE v
        zip64(n) ==
            IF n = 0 THEN <<>>
            ELSE PUT2(1) \o PUT2(n)
                 \o (IF Ge64(head.ulen, MAX32) THEN PUT8(head.ulen) ELSE <<>>)
                 \o (IF Ge64(head.clen, MAX32) THEN PUT8(head.clen) ELSE <<>>)
                 \o (IF Ge64(head.off, MAX32) THEN PUT8(head.off) ELSE <<>>)
        stamp ==
            IF head.os = 3
            THEN PUT2(13) \o PUT2(8) \o PUT4(head.atime) \o PUT4(head.mtime)
            ELSE PUT2(10) \o PUT2(32) \o PUT4(ZERO) \o PUT2(1) \o PUT2(24)
                 \o PUT8(head.mtime) \o PUT8(head.atime) \o PUT8(head.ctime)
        central(zlen, xlen) ==
            [sig |-> PUT4(U64(33639248)),
             made |-> PUT2(head.os * 256 + 45),
             need |-> PUT2(IF zlen # 0 THEN 45 ELSE 20),
             flags |-> PUT2(2056 + LEVEL(w.z)),
             method |-> PUT2(8),
             crc |-> PUT4(head.crc),
             clen |-> PUT4(clamp(head.clen)),
             ulen |-> PUT4(clamp(head.ulen)),
             nlen |-> PUT2(head.nlen),
             xlen |-> PUT2(zlen + xlen),
             comment |-> PUT2(0),
             disk |-> PUT2(0),
             iattr |-> PUT2(0),
             mode |-> PUT4(head.mode),
             off |-> PUT4(clamp(head.off))]
        write(n, zlen, xlen) ==
            zip_put(
              zip_put(
                zip_put(
                  zip_put(w, Buf("central", head.name, central(zlen, xlen)),
                          46, 0),
                  Buf("cname", head.name, w.heap[head.name].text),
                  head.nlen, 0),
                Buf("zip64", head.name, zip64(n)), zlen, 0),
              Buf("stamp", head.name, stamp), xlen, 1)
        extra(n) ==
            write(n, IF n # 0 THEN n + 4 ELSE 0, IF head.os = 3 THEN 12 ELSE 36)
    IN  extra((IF Ge64(head.ulen, MAX32) THEN 8 ELSE 0)
              + (IF Ge64(head.clen, MAX32) THEN 8 ELSE 0)
              + (IF Ge64(head.off, MAX32) THEN 8 ELSE 0))

\* zip_end() that writes the zip64 records whatever the count
zip_end_always_zip64(w, beg) ==
    LET clamp(v) == IF Ge64(v, MAX32) THEN MAX32 ELSE v
        count == IF w.z.hnum >= MAX16 THEN MAX16 ELSE w.z.hnum
        xend(len) ==
            [sig |-> PUT4(U64(101075792)),
             size |-> PUT8(U64(44)),
             made |-> PUT2(45),
             need |-> PUT2(45),
             disk |-> PUT4(ZERO),
             start |-> PUT4(ZERO),
             here |-> PUT8(U64(w.z.hnum)),
             total |-> PUT8(U64(w.z.hnum)),
             len |-> PUT8(len),
             beg |-> PUT8(beg)]
        loc ==
            [sig |-> PUT4(U64(117853008)),
             disk |-> PUT4(ZERO),
             off |-> PUT8(w.z.off),
             disks |-> PUT4(U64(1))]
        end(len) ==
            [sig |-> PUT4(U64(101010256)),
             disk |-> PUT2(0),
             start |-> PUT2(0),
             here |-> PUT2(count),
             total |-> PUT2(count),
             len |-> PUT4(clamp(len)),
             beg |-> PUT4(clamp(beg)),
             comment |-> PUT2(0)]
        last(w2, len) == zip_put(w2, Buf("end", count, end(len)), 22, 2)
        records(len) ==
            IF w.z.hnum >= 0 \/ Ge64(len, MAX32) \/ Ge64(beg, MAX32)
            THEN last(zip_put(zip_put(w, Buf("xend", w.z.hnum, xend(len)),
                                      56, 0),
                              Buf("loc", 0, loc), 20, 1),
                      len)
            ELSE last(w, len)
    IN  records(Sub64(w.z.off, beg))

\* zip_end() that does not look at the length of the directory
zip_end_no_length(w, beg) ==
    LET clamp(v) == IF Ge64(v, MAX32) THEN MAX32 ELSE v
        count == IF w.z.hnum >= MAX16 THEN MAX16 ELSE w.z.hnum
        xend(len) ==
            [sig |-> PUT4(U64(101075792)),
             size |-> PUT8(U64(44)),
             made |-> PUT2(45),
             need |-> PUT2(45),
             disk |-> PUT4(ZERO),
             start |-> PUT4(ZERO),
             here |-> PUT8(U64(w.z.hnum)),
             total |-> PUT8(U64(w.z.hnum)),
             len |-> PUT8(len),
             beg |-> PUT8(beg)]
        loc ==
            [sig |-> PUT4(U64(117853008)),
             disk |-> PUT4(ZERO),
             off |-> PUT8(w.z.off),
             disks |-> PUT4(U64(1))]
        end(len) ==
            [sig |-> PUT4(U64(101010256)),
             disk |-> PUT2(0),
             start |-> PUT2(0),
             here |-> PUT2(count),
             total |-> PUT2(count),
             len |-> PUT4(clamp(len)),
             beg |-> PUT4(clamp(beg)),
             comment |-> PUT2(0)]
        last(w2, len) == zip_put(w2, Buf("end", count, end(len)), 22, 2)
        records(len) ==
            IF w.z.hnum >= MAX16 \/ Ge64(beg, MAX32)
            THEN last(zip_put(zip_put(w, Buf("xend", w.z.hnum, xend(len)),
                                      56, 0),
                              Buf("loc", 0, loc), 20, 1),
                      len)
            ELSE last(w, len)
    IN  records(Sub64(w.z.off, beg))

\* zip_end() that writes the end record as it writes any last part
zip_end_no_hint(w, beg) ==
    LET clamp(v) == IF Ge64(v, MAX32) THEN MAX32 ELSE v
        count == IF w.z.hnum >= MAX16 THEN MAX16 ELSE w.z.hnum
        xend(len) ==
            [sig |-> PUT4(U64(101075792)),
             size |-> PUT8(U64(44)),
             made |-> PUT2(45),
             need |-> PUT2(45),
             disk |-> PUT4(ZERO),
             start |-> PUT4(ZERO),
             here |-> PUT8(U64(w.z.hnum)),
             total |-> PUT8(U64(w.z.hnum)),
             len |-> PUT8(len),
             beg |-> PUT8(beg)]
        loc ==
            [sig |-> PUT4(U64(117853008)),
             disk |-> PUT4(ZERO),
             off |-> PUT8(w.z.off),
             disks |-> PUT4(U64(1))]
        end(len) ==
            [sig |-> PUT4(U64(101010256)),
             disk |-> PUT2(0),
             start |-> PUT2(0),
             here |-> PUT2(count),
             total |-> PUT2(count),
             len |-> PUT4(clamp(len)),
             beg |-> PUT4(clamp(beg)),
             comment |-> PUT2(0)]
        last(w2, len) == zip_put(w2, Buf("end", count, end(len)), 22, 1)
        records(len) ==
            IF w.z.hnum >= MAX16 \/ Ge64(len, MAX32) \/ Ge64(beg, MAX32)
            THEN last(zip_put(zip_put(w, Buf("xend", w.z.hnum, xend(len)),
                                      56, 0),
                              Buf("loc", 0, loc), 20, 1),
                      len)
            ELSE last(w, len)
    IN  records(Sub64(w.z.off, beg))

zip_end(w, beg) ==
    LET clamp(v) == IF Ge64(v, MAX32) THEN MAX32 ELSE v
        count == IF w.z.hnum >= MAX16 THEN MAX16 ELSE w.z.hnum
        xend(len) ==
            [sig |-> PUT4(U64(101075792)),
             size |-> PUT8(U64(44)),
             made |-> PUT2(45),
             need |-> PUT2(45),
             disk |-> PUT4(ZERO),
             start |-> PUT4(ZERO),
             here |-> PUT8(U64(w.z.hnum)),
             total |-> PUT8(U64(w.z.hnum)),
             len |-> PUT8(len),
             beg |-> PUT8(beg)]
        loc ==
            [sig |-> PUT4(U64(117853008)),
             disk |-> PUT4(ZERO),
             off |-> PUT8(w.z.off),
             disks |-> PUT4(U64(1))]
        end(len) ==
            [sig |-> PUT4(U64(101010256)),
             disk |-> PUT2(0),
             start |-> PUT2(0),
             here |-> PUT2(count),
             total |-> PUT2(count),
             len |-> PUT4(clamp(len)),
             beg |-> PUT4(clamp(beg)),
             comment |-> PUT2(0)]
        last(w2, len) == zip_put(w2, Buf("end", count, end(len)), 22, 2)
        records(len) ==
            IF w.z.hnum >= MAX16 \/ Ge64(len, MAX32) \/ Ge64(beg, MAX32)
            THEN last(zip_put(zip_put(w, Buf("xend", w.z.hnum, xend(len)),
                                      56, 0),
                              Buf("loc", 0, loc), 20, 1),
                      len)
            ELSE last(w, len)
    IN  records(Sub64(w.z.off, beg))

RECURSIVE zip_clean_names(_)
zip_clean_names(w) ==
    IF w.z.hnum = 0 THEN w
    ELSE zip_clean_names([free(w, w.z.head[w.z.hnum].name) EXCEPT
                             !.z.hnum = @ - 1])

\* zip_clean() that does not report the write error
zip_clean_zero(w) ==
    LET cleaned(w1) == [w |-> [w1 EXCEPT !.z.id = ZERO], ret |-> 0]
    IN  cleaned(zip_clean_names(w))

zip_clean(w) ==
    LET cleaned(w1) == [w |-> [w1 EXCEPT !.z.id = ZERO], ret |-> w1.z.bad]
    IN  cleaned(zip_clean_names(w))

(***************************************************************************)
(* The exposed functions.  Each returns [w |-> the world after the call,   *)
(* ret |-> the value returned].  A ZIP * is NULL, Ptr("zip") (the session) *)
(* or Ptr("junk") (memory that is no session: its id is not ID).           *)
(***************************************************************************)
Z_BEST_COMPRESSION == 9

zip_open(file, level) ==
    IF IsNull(file) \/ level < -1 \/ level > Z_BEST_COMPRESSION THEN NULL
    ELSE Ptr([zip_init(level) EXCEPT !.out = file, !.handle = Ptr("zip"),
                                     !.put = "zip_write"])

zip_pipe(handle, put, level) ==
    IF IsNull(put) \/ level < -1 \/ level > Z_BEST_COMPRESSION THEN NULL
    ELSE Ptr([zip_init(level) EXCEPT !.handle = handle, !.put = put[1]])

IdOf(w, ptr) == IF ptr[1] = "zip" THEN w.z.id ELSE ZERO

Invalid(w, ptr) == IsNull(ptr) \/ IdOf(w, ptr) # ID

zip_log(w, ptr, hook, log) ==
    IF Invalid(w, ptr) THEN [w |-> w, ret |-> -1]
    ELSE [w |-> [w EXCEPT !.z.hook = hook, !.z.log = log], ret |-> 0]

\* zip_entry() that copies the path before it looks at zip->feed
zip_entry_copy_first(w, ptr, path) ==
    LET returns(w1) == [w |-> w1, ret |-> w1.z.bad]
        copy(len) ==
            [zip_room(w, len + 1) EXCEPT !.z.path = path[1], !.z.plen = len]
    IN  IF Invalid(w, ptr) \/ IsNull(path)
        THEN [w |-> w, ret |-> -1]
        ELSE IF w.z.feed # 0
        THEN [w |-> copy(PathLen(path[1])), ret |-> -1]
        ELSE returns(zip_scan(copy(PathLen(path[1]))))

zip_entry(w, ptr, path) ==
    LET returns(w1) == [w |-> w1, ret |-> w1.z.bad]
        scan(len) ==
            returns(zip_scan([zip_room(w, len + 1) EXCEPT
                                 !.z.path = path[1], !.z.plen = len]))
    IN  IF Invalid(w, ptr) \/ IsNull(path) \/ w.z.feed # 0
        THEN [w |-> w, ret |-> -1]
        ELSE scan(PathLen(path[1]))

\* zip_meta() that writes the local header at once
zip_meta_emit(w, ptr, path, os, args) ==
    LET start(w2) ==
            [w |-> zip_local([w2 EXCEPT !.z.slot.off = w.z.off,
                                        !.z.slot.ulen = ZERO,
                                        !.z.slot.clen = ZERO,
                                        !.z.slot.crc = crc32(ZERO, NULL, 0),
                                        !.z.feed = 1]),
             ret |-> 0]
        attrs(w1) ==
            IF os = 3
            THEN start([w1 EXCEPT
                          !.z.slot.mode = <<32768 + (args.mode % 4096), 0>>,
                          !.z.slot.atime = args.atime,
                          !.z.slot.mtime = args.mtime])
            ELSE start([w1 EXCEPT
                          !.z.slot.mode = U64(args.mode),
                          !.z.slot.ctime = args.ctime,
                          !.z.slot.atime = args.atime,
                          !.z.slot.mtime = args.mtime])
        name(len) ==
            IF len > 65535 THEN [w |-> w, ret |-> -1]
            ELSE IF os # 3 /\ os # 10 THEN [w |-> w, ret |-> -1]
            ELSE attrs([memcpy(malloc(zip_next(w), len + 1),
                               Len(w.heap) + 1, path[1]) EXCEPT
                           !.z.slot.name = Len(w.heap) + 1,
                           !.z.slot.nlen = len % 65536,
                           !.z.slot.os = os])
    IN  IF Invalid(w, ptr) \/ IsNull(path) \/ w.z.feed # 0
        THEN [w |-> w, ret |-> -1]
        ELSE name(PathLen(path[1]))

\* zip_meta() without the test of the length of the path
zip_meta_any_length(w, ptr, path, os, args) ==
    LET start(w2) ==
            [w |-> [w2 EXCEPT !.z.slot.off = w.z.off,
                              !.z.slot.ulen = ZERO,
                              !.z.slot.clen = ZERO,
                              !.z.slot.crc = crc32(ZERO, NULL, 0),
                              !.z.feed = 1],
             ret |-> 0]
        attrs(w1) ==
            IF os = 3
            THEN start([w1 EXCEPT
                          !.z.slot.mode = <<32768 + (args.mode % 4096), 0>>,
                          !.z.slot.atime = args.atime,
                          !.z.slot.mtime = args.mtime])
            ELSE start([w1 EXCEPT
                          !.z.slot.mode = U64(args.mode),
                          !.z.slot.ctime = args.ctime,
                          !.z.slot.atime = args.atime,
                          !.z.slot.mtime = args.mtime])
        name(len) ==
            IF os # 3 /\ os # 10 THEN [w |-> w, ret |-> -1]
            ELSE attrs([memcpy(malloc(zip_next(w), len + 1),
                               Len(w.heap) + 1, path[1]) EXCEPT
                           !.z.slot.name = Len(w.heap) + 1,
                           !.z.slot.nlen = len % 65536,
                           !.z.slot.os = os])
    IN  IF Invalid(w, ptr) \/ IsNull(path) \/ w.z.feed # 0
        THEN [w |-> w, ret |-> -1]
        ELSE name(PathLen(path[1]))

zip_meta(w, ptr, path, os, args) ==
    LET start(w2) ==
            [w |-> [w2 EXCEPT !.z.slot.off = w.z.off,
                              !.z.slot.ulen = ZERO,
                              !.z.slot.clen = ZERO,
                              !.z.slot.crc = crc32(ZERO, NULL, 0),
                              !.z.feed = 1],
             ret |-> 0]
        attrs(w1) ==
            IF os = 3
            THEN start([w1 EXCEPT
                          !.z.slot.mode = <<32768 + (args.mode % 4096), 0>>,
                          !.z.slot.atime = args.atime,
                          !.z.slot.mtime = args.mtime])
            ELSE start([w1 EXCEPT
                          !.z.slot.mode = U64(args.mode),
                          !.z.slot.ctime = args.ctime,
                          !.z.slot.atime = args.atime,
                          !.z.slot.mtime = args.mtime])
        name(len) ==
            IF len > 65535 THEN [w |-> w, ret |-> -1]
            ELSE IF os # 3 /\ os # 10 THEN [w |-> w, ret |-> -1]
            ELSE attrs([memcpy(malloc(zip_next(w), len + 1),
                               Len(w.heap) + 1, path[1]) EXCEPT
                           !.z.slot.name = Len(w.heap) + 1,
                           !.z.slot.nlen = len % 65536,
                           !.z.slot.os = os])
    IN  IF Invalid(w, ptr) \/ IsNull(path) \/ w.z.feed # 0
        THEN [w |-> w, ret |-> -1]
        ELSE name(PathLen(path[1]))

\* the loop of zip_data() that keeps the length of the last output only
RECURSIVE zip_data_loop_clen_of_last(_, _, _)
zip_data_loop_clen_of_last(w, len, last) ==
    LET count(w2, r, left) ==
            IF r.ret = Z_OK THEN zip_data_loop_clen_of_last(w2, left, last)
            ELSE [w |-> w2, ret |-> r.ret]
        written(w1, r, left) ==
            IF w1.z.bad # 0 THEN [w |-> w1, ret |-> r.ret]
            ELSE count([w1 EXCEPT !.z.slot.clen =
                           U64(CHUNK - r.s.avail_out)],
                       r, left)
        compressed(r, left) ==
            written(zip_put([w EXCEPT !.z.strm = r.s],
                            Comp(w.z.slot.name, r.ret),
                            CHUNK - r.s.avail_out, 1),
                    r, left)
        compress(more, left) ==
            compressed(deflate([w.z.strm EXCEPT !.avail_in = Add64(@, more),
                                                !.avail_out = CHUNK],
                               IF last # 0 /\ left = ZERO THEN Z_FINISH
                               ELSE Z_NO_FLUSH),
                       left)
        feed(more) == compress(more, Sub64(len, more))
        room(n) == feed(IF Gt64(n, len) THEN len ELSE n)
    IN  room(Sub64(UINT_MAX, w.z.strm.avail_in))

\* the do-while loop of zip_data(): len is what is left of the buffer
RECURSIVE zip_data_loop(_, _, _)
zip_data_loop(w, len, last) ==
    LET count(w2, r, left) ==
            IF r.ret = Z_OK THEN zip_data_loop(w2, left, last)
            ELSE [w |-> w2, ret |-> r.ret]
        written(w1, r, left) ==
            IF w1.z.bad # 0 THEN [w |-> w1, ret |-> r.ret]
            ELSE count([w1 EXCEPT !.z.slot.clen =
                           Add64(@, U64(CHUNK - r.s.avail_out))],
                       r, left)
        compressed(r, left) ==
            written(zip_put([w EXCEPT !.z.strm = r.s],
                            Comp(w.z.slot.name, r.ret),
                            CHUNK - r.s.avail_out, 1),
                    r, left)
        compress(more, left) ==
            compressed(deflate([w.z.strm EXCEPT !.avail_in = Add64(@, more),
                                                !.avail_out = CHUNK],
                               IF last # 0 /\ left = ZERO THEN Z_FINISH
                               ELSE Z_NO_FLUSH),
                       left)
        feed(more) == compress(more, Sub64(len, more))
        room(n) == feed(IF Gt64(n, len) THEN len ELSE n)
    IN  room(Sub64(UINT_MAX, w.z.strm.avail_in))

\* one pass of the do-while loop of zip_data() that feeds all that is left
zip_data_pass_unsliced(w, len, last) ==
    LET written(w1, r, left, avail) ==
            [w |-> IF w1.z.bad # 0 THEN w1
                   ELSE [w1 EXCEPT !.z.slot.clen =
                            Add64(@, U64(CHUNK - r.s.avail_out))],
             len |-> left, ret |-> r.ret, avail |-> avail]
        compressed(r, left, avail) ==
            written(zip_put([w EXCEPT !.z.strm = r.s],
                            Comp(w.z.slot.name, r.ret),
                            CHUNK - r.s.avail_out, 1),
                    r, left, avail)
        compress(avail, left) ==
            compressed(deflate([w.z.strm EXCEPT !.avail_in = avail,
                                                !.avail_out = CHUNK],
                               IF last # 0 /\ left = ZERO THEN Z_FINISH
                               ELSE Z_NO_FLUSH),
                       left, avail)
        feed(more) ==
            compress(Add64(w.z.strm.avail_in, more), Sub64(len, more))
    IN  feed(len)

\* one pass of the do-while loop of zip_data(): len is what is left of the
\* buffer before it, avail is avail_in as deflate() is called, and the loop
\* goes on when ret is Z_OK and no write failed
zip_data_pass(w, len, last) ==
    LET written(w1, r, left, avail) ==
            [w |-> IF w1.z.bad # 0 THEN w1
                   ELSE [w1 EXCEPT !.z.slot.clen =
                            Add64(@, U64(CHUNK - r.s.avail_out))],
             len |-> left, ret |-> r.ret, avail |-> avail]
        compressed(r, left, avail) ==
            written(zip_put([w EXCEPT !.z.strm = r.s],
                            Comp(w.z.slot.name, r.ret),
                            CHUNK - r.s.avail_out, 1),
                    r, left, avail)
        compress(avail, left) ==
            compressed(deflate([w.z.strm EXCEPT !.avail_in = avail,
                                                !.avail_out = CHUNK],
                               IF last # 0 /\ left = ZERO THEN Z_FINISH
                               ELSE Z_NO_FLUSH),
                       left, avail)
        feed(more) ==
            compress(Add64(w.z.strm.avail_in, more), Sub64(len, more))
        room(n) == feed(IF Gt64(n, len) THEN len ELSE n)
    IN  room(Sub64(UINT_MAX, w.z.strm.avail_in))

\* zip_data() from the end of its loop, left with the value code of ret
zip_data_end(w, code, last) ==
    LET returns(w5) == [w |-> w5, ret |-> w5.z.bad]
        next(w4) ==
            returns([w4 EXCEPT !.z.hnum = @ + 1,
                               !.z.head = Append(@, w4.z.slot),
                               !.z.slot = UNINIT,
                               !.z.feed = 0])
        finish(w3) ==
            IF w3.trap # "" THEN [w |-> w3, ret |-> 0]
            ELSE next(zip_desc([w3 EXCEPT !.z.strm = deflateReset(@)]))
    IN  IF last # 0
        THEN finish(assert(w, code = Z_STREAM_END, "internal error"))
        ELSE returns(assert(w, code = Z_BUF_ERROR, "internal error"))

\* zip_data() without its return for len == 0 && last == 0
zip_data_eager(w, ptr, data, len, last) ==
    LET returns(w5) == [w |-> w5, ret |-> w5.z.bad]
        next(w4) ==
            returns([w4 EXCEPT !.z.hnum = @ + 1,
                               !.z.head = Append(@, w4.z.slot),
                               !.z.slot = UNINIT,
                               !.z.feed = 0])
        finish(w3) ==
            IF w3.trap # "" THEN [w |-> w3, ret |-> 0]
            ELSE next(zip_desc([w3 EXCEPT !.z.strm = deflateReset(@)]))
        done(r) ==
            IF r.w.z.bad # 0 THEN [w |-> r.w, ret |-> r.w.z.bad]
            ELSE IF last # 0
            THEN finish(assert(r.w, r.ret = Z_STREAM_END, "internal error"))
            ELSE returns(assert(r.w, r.ret = Z_BUF_ERROR, "internal error"))
        loop(w2) ==
            done(zip_data_loop([w2 EXCEPT !.z.strm.avail_in = ZERO],
                               U64(len), last))
        update(w1) ==
            IF len # 0
            THEN loop([w1 EXCEPT !.z.slot.crc = crc32(@, data, len),
                                 !.z.slot.ulen = Add64(@, U64(len))])
            ELSE loop(w1)
    IN  IF Invalid(w, ptr) \/ w.z.feed = 0 \/ (IsNull(data) /\ len # 0)
        THEN [w |-> w, ret |-> -1]
        ELSE IF w.z.feed = 1
        THEN update([zip_local(w) EXCEPT !.z.feed = 2])
        ELSE update(w)

\* zip_data() that starts the CRC-32 anew at each call
zip_data_crc_per_call(w, ptr, data, len, last) ==
    LET returns(w5) == [w |-> w5, ret |-> w5.z.bad]
        next(w4) ==
            returns([w4 EXCEPT !.z.hnum = @ + 1,
                               !.z.head = Append(@, w4.z.slot),
                               !.z.slot = UNINIT,
                               !.z.feed = 0])
        finish(w3) ==
            IF w3.trap # "" THEN [w |-> w3, ret |-> 0]
            ELSE next(zip_desc([w3 EXCEPT !.z.strm = deflateReset(@)]))
        done(r) ==
            IF r.w.z.bad # 0 THEN [w |-> r.w, ret |-> r.w.z.bad]
            ELSE IF last # 0
            THEN finish(assert(r.w, r.ret = Z_STREAM_END, "internal error"))
            ELSE returns(assert(r.w, r.ret = Z_BUF_ERROR, "internal error"))
        loop(w2) ==
            done(zip_data_loop([w2 EXCEPT !.z.strm.avail_in = ZERO],
                               U64(len), last))
        update(w1) ==
            IF len # 0
            THEN loop([w1 EXCEPT !.z.slot.crc = crc32(ZERO, data, len),
                                 !.z.slot.ulen = Add64(@, U64(len))])
            ELSE loop(w1)
    IN  IF Invalid(w, ptr) \/ w.z.feed = 0 \/ (IsNull(data) /\ len # 0)
        THEN [w |-> w, ret |-> -1]
        ELSE IF len = 0 /\ last = 0
        THEN [w |-> w, ret |-> w.z.bad]
        ELSE IF w.z.feed = 1
        THEN update([zip_local(w) EXCEPT !.z.feed = 2])
        ELSE update(w)

\* zip_data() that writes the local header at every call that has work
zip_data_header_each_call(w, ptr, data, len, last) ==
    LET returns(w5) == [w |-> w5, ret |-> w5.z.bad]
        next(w4) ==
            returns([w4 EXCEPT !.z.hnum = @ + 1,
                               !.z.head = Append(@, w4.z.slot),
                               !.z.slot = UNINIT,
                               !.z.feed = 0])
        finish(w3) ==
            IF w3.trap # "" THEN [w |-> w3, ret |-> 0]
            ELSE next(zip_desc([w3 EXCEPT !.z.strm = deflateReset(@)]))
        done(r) ==
            IF r.w.z.bad # 0 THEN [w |-> r.w, ret |-> r.w.z.bad]
            ELSE IF last # 0
            THEN finish(assert(r.w, r.ret = Z_STREAM_END, "internal error"))
            ELSE returns(assert(r.w, r.ret = Z_BUF_ERROR, "internal error"))
        loop(w2) ==
            done(zip_data_loop([w2 EXCEPT !.z.strm.avail_in = ZERO],
                               U64(len), last))
        update(w1) ==
            IF len # 0
            THEN loop([w1 EXCEPT !.z.slot.crc = crc32(@, data, len),
                                 !.z.slot.ulen = Add64(@, U64(len))])
            ELSE loop(w1)
    IN  IF Invalid(w, ptr) \/ w.z.feed = 0 \/ (IsNull(data) /\ len # 0)
        THEN [w |-> w, ret |-> -1]
        ELSE IF len = 0 /\ last = 0
        THEN [w |-> w, ret |-> w.z.bad]
        ELSE IF w.z.feed # 0
        THEN update([zip_local(w) EXCEPT !.z.feed = 2])
        ELSE update(w)

zip_data(w, ptr, data, len, last) ==
    LET returns(w5) == [w |-> w5, ret |-> w5.z.bad]
        next(w4) ==
            returns([w4 EXCEPT !.z.hnum = @ + 1,
                               !.z.head = Append(@, w4.z.slot),
                               !.z.slot = UNINIT,
                               !.z.feed = 0])
        finish(w3) ==
            IF w3.trap # "" THEN [w |-> w3, ret |-> 0]
            ELSE next(zip_desc([w3 EXCEPT !.z.strm = deflateReset(@)]))
        done(r) ==
            IF r.w.z.bad # 0 THEN [w |-> r.w, ret |-> r.w.z.bad]
            ELSE IF last # 0
            THEN finish(assert(r.w, r.ret = Z_STREAM_END, "internal error"))
            ELSE returns(assert(r.w, r.ret = Z_BUF_ERROR, "internal error"))
        loop(w2) ==
            done(zip_data_loop([w2 EXCEPT !.z.strm.avail_in = ZERO],
                               U64(len), last))
        update(w1) ==
            IF len # 0
            THEN loop([w1 EXCEPT !.z.slot.crc = crc32(@, data, len),
                                 !.z.slot.ulen = Add64(@, U64(len))])
            ELSE loop(w1)
    IN  IF Invalid(w, ptr) \/ w.z.feed = 0 \/ (IsNull(data) /\ len # 0)
        THEN [w |-> w, ret |-> -1]
        ELSE IF len = 0 /\ last = 0
        THEN [w |-> w, ret |-> w.z.bad]
        ELSE IF w.z.feed = 1
        THEN update([zip_local(w) EXCEPT !.z.feed = 2])
        ELSE update(w)

\* the loop of zip_close() over head[i .. hnum - 1]
RECURSIVE zip_close_loop(_, _)
zip_close_loop(w, i) ==
    IF i < w.z.hnum /\ w.z.bad = 0
    THEN zip_close_loop(zip_central(w, w.z.head[i + 1]), i + 1)
    ELSE w

\* zip_close() that does not complete the entry being fed
zip_close_abandon(w, ptr) ==
    LET directory(w1) ==
            IF w1.trap # "" THEN [w |-> w1, ret |-> 0]
            ELSE zip_clean(zip_end(zip_close_loop(w1, 0), w1.z.off))
    IN  IF Invalid(w, ptr) THEN [w |-> w, ret |-> -1]
        ELSE directory(w)

\* zip_close() that takes the offset of the directory after writing it
zip_close_late_offset(w, ptr) ==
    LET end(w2) == zip_clean(zip_end(w2, w2.z.off))
        directory(w1) ==
            IF w1.trap # "" THEN [w |-> w1, ret |-> 0]
            ELSE end(zip_close_loop(w1, 0))
    IN  IF Invalid(w, ptr) THEN [w |-> w, ret |-> -1]
        ELSE IF w.z.feed # 0 /\ w.z.bad = 0
        THEN directory(zip_data(w, ptr, NULL, 0, 1).w)
        ELSE directory(w)

zip_close(w, ptr) ==
    LET directory(w1) ==
            IF w1.trap # "" THEN [w |-> w1, ret |-> 0]
            ELSE zip_clean(zip_end(zip_close_loop(w1, 0), w1.z.off))
    IN  IF Invalid(w, ptr) THEN [w |-> w, ret |-> -1]
        ELSE IF w.z.feed # 0 /\ w.z.bad = 0
        THEN directory(zip_data(w, ptr, NULL, 0, 1).w)
        ELSE directory(w)

(***************************************************************************)
(* The caller.  Arguments are drawn from small sets that hold every kind   *)
(* of argument the functions tell apart.                                   *)
(***************************************************************************)
ZIP == Ptr("zip")
BadPtrs == {NULL, Ptr("junk")}

EntryPaths == {<<"f">>, <<"e">>, <<"n">>, <<"d">>}
\* <<path, os>>
MetaArgs == {<<NULL, 3>>, <<Ptr(<<"m">>), 3>>, <<Ptr(<<"m">>), 10>>,
             <<Ptr(<<"M">>), 3>>, <<Ptr(<<"L">>), 3>>, <<Ptr(<<"m">>), 0>>}
\* mode 0644 and times, or attributes and times
MetaMore(os) ==
    IF os = 10
    THEN [mode |-> 32, ctime |-> <<30000, 1>>, atime |-> <<30000, 2>>,
          mtime |-> <<30000, 3>>]
    ELSE [mode |-> 420, ctime |-> ZERO, atime |-> U64(1700000000),
          mtime |-> U64(1700000000)]
\* <<data, len>>
DataArgs == {<<NULL, 0>>, <<NULL, 1>>, <<Ptr(<<104>>), 1>>,
             <<Ptr(<<104, 105>>), 2>>}

\* the part of the state a call starts from that claims refer to
Pre == [feed |-> zip.feed, bad |-> zip.bad, off |-> zip.off,
        hnum |-> zip.hnum, nout |-> Len(out), nheap |-> Len(heap),
        nmsgs |-> Len(msgs), slot |-> zip.slot]

\* The session is open, the program has not aborted, the caller goes on.
Ready == zip.id = ID /\ trap = "" /\ calls < MaxCalls

\* The call c returns as r says.
Return(r, c) ==
    /\ zip' = r.w.z
    /\ out' = r.w.out
    /\ heap' = r.w.heap
    /\ msgs' = r.w.msgs
    /\ trap' = r.w.trap
    /\ call' = IF r.ret = -1 THEN [fn |-> c.fn] ELSE c
    /\ ret' = r.ret
    /\ calls' = calls + 1

\* The writer fails at the k-th invocation of put() that a call makes (at
\* none for k = 0), of the invocations the call r makes when none fails.
Puts(r) == Len(r.w.out) - Len(out)
Fail(k) == IF k = 0 THEN 0 ELSE Len(out) + k

ZipLog ==
    \E a \in ({ZIP} \X {NULL, Ptr("log")}) \cup (BadPtrs \X {Ptr("log")}) :
        /\ Ready
        /\ Return(zip_log(World(0), a[1], NULL, a[2]),
                  [fn |-> "zip_log", ptr |-> a[1], pre |-> Pre])

ZipEntry ==
    \E a \in ({ZIP} \X ({NULL} \cup {Ptr(p) : p \in EntryPaths}))
             \cup (BadPtrs \X {Ptr(<<"f">>)}) :
        /\ Ready
        /\ \E k \in 0 .. Puts(zip_entry(World(0), a[1], a[2])) :
              Return(zip_entry(World(Fail(k)), a[1], a[2]),
                     [fn |-> "zip_entry", ptr |-> a[1], path |-> a[2],
                      pre |-> Pre])

ZipMeta ==
    \E a \in ({ZIP} \X MetaArgs) \cup (BadPtrs \X {<<Ptr(<<"m">>), 3>>}) :
        /\ Ready
        /\ Return(zip_meta(World(0), a[1], a[2][1], a[2][2],
                           MetaMore(a[2][2])),
                  [fn |-> "zip_meta", ptr |-> a[1], path |-> a[2][1],
                   os |-> a[2][2], pre |-> Pre])

ZipData ==
    \E a \in ({ZIP} \X DataArgs \X {0, 1})
             \cup (BadPtrs \X {<<Ptr(<<104>>), 1>>} \X {1}) :
        /\ Ready
        /\ \E k \in 0 .. Puts(zip_data(World(0), a[1], a[2][1], a[2][2],
                                       a[3])) :
              Return(zip_data(World(Fail(k)), a[1], a[2][1], a[2][2], a[3]),
                     [fn |-> "zip_data", ptr |-> a[1], data |-> a[2][1],
                      len |-> a[2][2], last |-> a[3], pre |-> Pre])

ZipClose ==
    \E p \in {ZIP} \cup BadPtrs :
        /\ Ready
        /\ \E k \in 0 .. Puts(zip_close(World(0), p)) :
              Return(zip_close(World(Fail(k)), p),
                     [fn |-> "zip_close", ptr |-> p, pre |-> Pre])

\* The state after zip_open() or zip_pipe() has returned a session.
Init ==
    /\ zip \in { s[1] : s \in { zip_open(Ptr("stdout"), -1),
                                zip_pipe(Ptr("handle"), Ptr("put"), -1) } }
    /\ out = <<>>
    /\ heap = <<>>
    /\ msgs = <<>>
    /\ trap = ""
    /\ call = [fn |-> IF zip.put = "zip_write" THEN "zip_open" ELSE "zip_pipe"]
    /\ ret = 0
    /\ calls = 0

Next == ZipLog \/ ZipEntry \/ ZipMeta \/ ZipData \/ ZipClose

Spec == Init /\ [][Next]_vars

(***************************************************************************)
(* Sessions of every compression level zip_open() accepts, to which files  *)
(* are added and which are closed.                                         *)
(***************************************************************************)
Levels == -1 .. Z_BEST_COMPRESSION

LevelInit ==
    /\ \E level \in Levels : zip = zip_open(Ptr("stdout"), level)[1]
    /\ out = <<>>
    /\ heap = <<>>
    /\ msgs = <<>>
    /\ trap = ""
    /\ call = [fn |-> "zip_open"]
    /\ ret = 0
    /\ calls = 0

LevelNext == ZipEntry \/ ZipClose

Level == LevelInit /\ [][LevelNext]_vars

(***************************************************************************)
(* The record writers on large values.  zip_desc(), zip_central() and      *)
(* zip_end() are functions of a header record, the offset and the count of *)
(* entries.  Lengths and offsets of 4 GiB and counts of 65535 take more    *)
(* calls than can be enumerated, so the writers are applied to states      *)
(* drawn at two places of a session that has got that far; out holds what  *)
(* is written from there on.                                               *)
(*   - zip_deflate() has returned for the first entry that is kept (the    *)
(*     entries before it, if any, had read errors: their bytes are in the  *)
(*     stream and they are not in the table).  zip_desc() and hnum++       *)
(*     follow, then the whole of zip_close().                              *)
(*   - the loop of zip_close() has written the central directory of hnum   *)
(*     entries, of which the table is not represented, and zip_end() is    *)
(*     about to be called with the offset where the directory began.       *)
(***************************************************************************)
\* <<ulen, clen>> of an entry: deflate output is from about a thousandth of
\* its input to a little more than its input
WireLengths ==
    { <<U64(1000), U64(300)>>,
      <<<<65535, 65534>>, <<65535, 65534>>>>,
      <<<<65535, 65534>>, MAX32>>,
      <<MAX32, U64(5000000)>>,
      <<<<65536, 0>>, <<65535, 65534>>>>,
      <<<<65536, 7>>, <<65536, 100>>>>,
      <<<<196608, 1>>, U64(10000000)>> }

\* the offset of the local header of the entry
WireOffsets == {ZERO, U64(1000), <<65535, 65534>>, MAX32, <<65536, 5>>}

WireCrcs == {ZERO, <<4660, 22136>>}

\* the session when zip_deflate() has returned for the entry "f"
WireEntry ==
    { [s[1] EXCEPT
          !.off = Add64(Add64(off, U64(30 + 1)), len[2]),
          !.slot = [name |-> 1, nlen |-> 1, os |-> os, ulen |-> len[1],
                    clen |-> len[2], crc |-> crc,
                    mode |-> IF os = 3 THEN <<33188, 0>> ELSE U64(32),
                    ctime |-> IF os = 3 THEN ZERO ELSE U64(7),
                    atime |-> U64(8), mtime |-> U64(9), off |-> off]] :
      s \in {zip_open(Ptr("stdout"), -1)}, len \in WireLengths,
      off \in WireOffsets, crc \in WireCrcs, os \in {3, 10} }

\* <<hnum, len, beg>> when the loop of zip_close() is done: a record of the
\* directory takes 58 to 65645 bytes, an entry takes 48 bytes or more
WireDirectories ==
    ({0} \X {ZERO} \X {ZERO, U64(1000), <<65535, 65534>>, MAX32})
    \cup ({1} \X {U64(59), U64(65645)} \X {U64(1000), MAX32, <<65536, 5>>})
    \cup ({65534, 65535, 65536}
          \X {U64(3866600), <<65535, 65534>>, MAX32, <<65536, 0>>}
          \X {U64(4000000), <<65535, 65534>>, MAX32, <<65537, 5>>})

\* the session when the loop of zip_close() is done
WireClose ==
    { [s[1] EXCEPT !.hnum = d[1], !.off = Add64(d[3], d[2])] :
      s \in {zip_open(Ptr("stdout"), -1), zip_pipe(Ptr("handle"), Ptr("put"), -1)},
      d \in WireDirectories }

WireInit ==
    /\ \/ /\ zip \in WireEntry
          /\ heap = <<[len |-> 2, text |-> <<"f">>, frees |-> 0, at |-> 0]>>
          /\ call = [fn |-> "zip_deflate"]
       \/ /\ \E d \in WireDirectories :
                /\ zip \in WireClose
                /\ zip.hnum = d[1]
                /\ zip.off = Add64(d[3], d[2])
                /\ call = [fn |-> "zip_close_loop", beg |-> d[3]]
          /\ heap = <<>>
    /\ out = <<>>
    /\ msgs = <<>>
    /\ trap = ""
    /\ ret = 0
    /\ calls = 0

\* zip_desc(zip); zip->hnum++
WireDesc ==
    /\ call.fn = "zip_deflate"
    /\ Return([w |-> [zip_desc(World(0)) EXCEPT
                         !.z.hnum = @ + 1,
                         !.z.head = Append(@, zip.slot),
                         !.z.slot = UNINIT],
               ret |-> 0],
              [fn |-> "zip_desc", pre |-> Pre])

\* uint64_t beg = zip->off; and the loop of zip_close()
WireCentral ==
    /\ call.fn = "zip_desc"
    /\ Return([w |-> zip_close_loop(World(0), 0), ret |-> 0],
              [fn |-> "zip_close_loop", beg |-> zip.off])

\* zip_end(zip, beg)
WireEnd ==
    /\ call.fn = "zip_close_loop"
    /\ Return([w |-> zip_end(World(0), call.beg), ret |-> 0],
              [fn |-> "zip_end", beg |-> call.beg, pre |-> Pre])

WireNext == WireDesc \/ WireCentral \/ WireEnd

Wire == WireInit /\ [][WireNext]_vars

(***************************************************************************)
(* Feeding one entry.  zip_meta() has begun an entry; the caller hands its *)
(* data to zip_data() in chunks and closes.  call.fed is the history of    *)
(* the bytes handed over for the entry.                                    *)
(***************************************************************************)
MaxFeeds == 3

\* <<data, len>>
FeedChunks == {<<NULL, 0>>, <<Ptr(<<104>>), 1>>, <<Ptr(<<105>>), 1>>,
               <<Ptr(<<104, 105>>), 2>>}

\* the worlds in which zip_meta() has returned 0
FeedStart ==
    { zip_meta([z |-> s[1], out |-> <<>>, heap |-> <<>>, msgs |-> <<>>,
                trap |-> "", wfail |-> 0],
               ZIP, Ptr(<<"m">>), os, MetaMore(os)).w :
      s \in {zip_open(Ptr("stdout"), -1),
             zip_pipe(Ptr("handle"), Ptr("put"), -1)},
      os \in {3, 10} }

FeedInit ==
    /\ \E w \in FeedStart : zip = w.z /\ heap = w.heap
    /\ out = <<>>
    /\ msgs = <<>>
    /\ trap = ""
    /\ call = [fn |-> "zip_meta", fed |-> <<>>]
    /\ ret = 0
    /\ calls = 0

FeedData ==
    \E a \in FeedChunks \X {0, 1} :
        /\ zip.id = ID /\ zip.feed # 0 /\ trap = "" /\ calls < MaxFeeds
        /\ \E k \in 0 .. Puts(zip_data(World(0), ZIP, a[1][1], a[1][2],
                                       a[2])) :
              Return(zip_data(World(Fail(k)), ZIP, a[1][1], a[1][2], a[2]),
                     [fn |-> "zip_data", data |-> a[1][1], len |-> a[1][2],
                      last |-> a[2],
                      fed |-> call.fed
                              \o (IF IsNull(a[1][1]) THEN <<>>
                                  ELSE a[1][1][1])])

FeedClose ==
    /\ zip.id = ID /\ trap = ""
    /\ \E k \in 0 .. Puts(zip_close(World(0), ZIP)) :
          Return(zip_close(World(Fail(k)), ZIP),
                 [fn |-> "zip_close", fed |-> call.fed, feed |-> zip.feed])

FeedNext == FeedData \/ FeedClose

Feed == FeedInit /\ [][FeedNext]_vars

(***************************************************************************)
(* The loop of zip_data() pass by pass, on buffers longer than deflate()   *)
(* can be given at once.  The bytes are not modelled, their number is:     *)
(* call.len is the length of the buffer, call.left what is left of it,     *)
(* call.fed what was added to avail_in, call.avail the value of avail_in   *)
(* as deflate() was called and call.code what deflate() returned.  Here    *)
(* out holds the invocations of put() made since the last step only: the   *)
(* thousands of passes of one call would make a history too long to carry. *)
(***************************************************************************)
SliceLengths == {U64(3), Add64(UINT_MAX, U64(2))}

\* the worlds at the do statement of the first zip_data() call of an entry
SliceStart ==
    { [w EXCEPT !.z.feed = 2,
                !.z.slot.ulen = len,
                !.z.strm.avail_in = ZERO] :
      w \in { zip_local(zip_meta([z |-> zip_open(Ptr("stdout"), -1)[1],
                                  out |-> <<>>, heap |-> <<>>,
                                  msgs |-> <<>>, trap |-> "", wfail |-> 0],
                                 ZIP, Ptr(<<"m">>), 3, MetaMore(3)).w) },
      len \in SliceLengths }

SliceInit ==
    /\ \E w \in SliceStart :
          /\ zip = w.z /\ heap = w.heap /\ out = w.out
          /\ \E last \in {0, 1} :
                call = [fn |-> "zip_data", len |-> w.z.slot.ulen,
                        last |-> last, left |-> w.z.slot.ulen, fed |-> ZERO,
                        avail |-> ZERO, code |-> Z_OK]
    /\ msgs = <<>>
    /\ trap = ""
    /\ ret = 0
    /\ calls = 0

\* The pass or the end r is made; c is the position it leaves zip_data at.
SliceReturn(r, c) ==
    /\ zip' = r.w.z
    /\ out' = SubSeq(r.w.out, Len(out) + 1, Len(r.w.out))
    /\ heap' = r.w.heap
    /\ msgs' = r.w.msgs
    /\ trap' = r.w.trap
    /\ call' = c
    /\ ret' = r.ret
    /\ calls' = calls + 1

\* the position after the pass r
SlicePassed(r) ==
    SliceReturn([w |-> r.w, ret |-> r.w.z.bad],
                [call EXCEPT !.fn = "zip_data_pass",
                             !.left = r.len,
                             !.fed = Add64(@, Sub64(call.left, r.len)),
                             !.avail = r.avail,
                             !.code = r.ret])

\* one pass of the loop, in which the writer fails or not
SlicePass ==
    /\ call.fn \in {"zip_data", "zip_data_pass"}
    /\ call.code = Z_OK /\ zip.bad = 0 /\ trap = ""
    /\ \E k \in 0 .. 1 :
          SlicePassed(zip_data_pass(World(Fail(k)), call.left, call.last))

\* what zip_data() does when the loop is left without a write error
SliceEnd ==
    /\ call.fn = "zip_data_pass"
    /\ call.code # Z_OK /\ zip.bad = 0 /\ trap = ""
    /\ \E k \in 0 .. Puts(zip_data_end(World(0), call.code, call.last)) :
          SliceReturn(zip_data_end(World(Fail(k)), call.code, call.last),
                      [call EXCEPT !.fn = "zip_data_end"])

SliceNext == SlicePass \/ SliceEnd

Slice == SliceInit /\ [][SliceNext]_vars

(***************************************************************************)
(* The claims.  out is the history of the writer, so a claim about what is *)
(* handed to the writer is a claim about out; call and ret tell the call   *)
(* that led to a state, call.pre the state it was made in.                 *)
(***************************************************************************)
\* The writer has returned nonzero.
Failed == \E i \in DOMAIN out : ~out[i].ok

\* what a record of out is, whatever its size
What(rec) == <<rec.kind, rec.ent, rec.fin>>

\* The name allocation n holds the path of a regular file whose read fails,
\* or of one that reads to its end.
ReadError(n) ==
    /\ FS(heap[n].text).type = "reg"
    /\ FS(heap[n].text).errAt >= 0
GoodFile(n) ==
    /\ FS(heap[n].text).type = "reg"
    /\ FS(heap[n].text).errAt < 0

\* C1: once put() has returned nonzero it is never invoked again in the
\* session: the invocation that failed is the last one of out, whatever
\* zip_entry, zip_data and zip_close calls follow.
C1_NoPutAfterFailure == \A i \in DOMAIN out : ~out[i].ok => i = Len(out)

\* A session with entries is closed after the writer failed in an earlier call.
C1_Witness ==
    /\ ret = 1
    /\ call.fn = "zip_close"
    /\ call.pre.bad = 1
    /\ call.pre.hnum > 0
    /\ Failed

\* C2: a zip_entry, zip_data or zip_close call that is not rejected returns 1
\* if the writer has failed by the time it returns (in this call or in an
\* earlier one), which is when bad is set, and 0 otherwise; files skipped or
\* omitted do not count.
C2_ReturnsLatch ==
    (ret # -1 /\ call.fn \in {"zip_entry", "zip_data", "zip_close"}) =>
        /\ ret = (IF Failed THEN 1 ELSE 0)
        /\ ret = zip.bad

\* zip_entry returns 1 for a failure of an earlier call, in a call that
\* itself only skipped or omitted files.
C2_Witness ==
    /\ ret = 1
    /\ call.fn = "zip_entry"
    /\ call.pre.bad = 1
    /\ Len(msgs) > call.pre.nmsgs

\* C3: a call that returns -1 changes nothing: the session (feed, offset,
\* count and records of the headers, bad, omit), what was handed to the
\* writer, the allocations and the diagnostics are what they were.
C3_RejectedCallChangesNothing ==
    [][ret' = -1 =>
          /\ zip' = zip
          /\ out' = out
          /\ heap' = heap
          /\ msgs' = msgs
          /\ trap' = trap]_vars

\* zip_entry was rejected while an entry is being fed.
C3_Witness == ret = -1 /\ call.fn = "zip_entry" /\ zip.feed # 0

\* C4: an accepted zip_data call with last set leaves feed = 0, write error
\* or not.
C4_LastDataLeavesIdle ==
    (ret # -1 /\ call.fn = "zip_data" /\ call.last = 1) => zip.feed = 0

\* C5: once zip_close has returned, every name allocation has been freed
\* exactly once.
C5_NamesFreedOnce ==
    zip.id # ID => \A n \in DOMAIN heap : heap[n].frees = 1

\* The records of the central directory for the entries named names, and of
\* the end record that follows them.
RECURSIVE C6_Directory(_)
C6_Directory(names) ==
    IF names = <<>> THEN <<>>
    ELSE << <<"central", Head(names), FALSE>>, <<"cname", Head(names), FALSE>>,
            <<"zip64", Head(names), FALSE>>, <<"stamp", Head(names), FALSE>> >>
         \o C6_Directory(Tail(names))

\* What zip_close has to write in a state with an entry being fed: the rest
\* of the entry, then the directory with the entry in it.
C6_Expected ==
    (IF zip.feed = 1
     THEN << <<"local", zip.slot.name, FALSE>>, <<"name", zip.slot.name, FALSE>> >>
     ELSE <<>>)
    \o << <<"deflate", zip.slot.name, TRUE>>, <<"desc", zip.slot.name, FALSE>> >>
    \o C6_Directory([i \in 1 .. zip.hnum |-> zip.head[i].name]
                    \o <<zip.slot.name>>)
    \o << <<"end", zip.hnum + 1, FALSE>> >>

\* The step ends as the call that returned r.
C6_As(r) ==
    /\ zip' = r.w.z
    /\ out' = r.w.out
    /\ heap' = r.w.heap
    /\ msgs' = r.w.msgs
    /\ ret' = r.ret

\* the invocation of put() of this step that failed, 0 if none did
C6_FailedAt ==
    IF \E i \in DOMAIN out' : ~out'[i].ok
    THEN CHOOSE i \in DOMAIN out' : ~out'[i].ok
    ELSE 0

\* C6: zip_close with an entry being fed and no write error latched ends as
\* zip_data(NULL, 0, 1) followed by zip_close does, and what it hands to the
\* writer is the local header if not yet written, the end of the deflate
\* stream, the data descriptor, and the directory with the entry in it: all
\* of it when the writer does not fail, and up to the failure when it does.
C6_CloseCompletesEntry ==
    [][(zip.feed # 0 /\ zip.bad = 0 /\ call'.fn = "zip_close" /\ ret' # -1) =>
          /\ C6_As(zip_close(zip_data(World(C6_FailedAt), ZIP, NULL, 0, 1).w,
                             ZIP))
          /\ Len(out') - Len(out) <= Len(C6_Expected)
          /\ \A i \in 1 .. (Len(out') - Len(out)) :
                What(out'[Len(out) + i]) = C6_Expected[i]
          /\ C6_FailedAt = 0 => Len(out') - Len(out) = Len(C6_Expected)]_vars

\* zip_close completed an entry that had no local header yet, without error.
C6_Witness == ret = 0 /\ call.fn = "zip_close" /\ call.pre.feed = 1

\* C7: a zip_meta call that returns 0 hands nothing to the writer, leaves off
\* and bad as they were, takes feed from 0 to 1, and sets the record's off to
\* the current offset and its lengths to 0.
C7_MetaWritesNothing ==
    [][(call'.fn = "zip_meta" /\ ret' = 0) =>
          /\ out' = out
          /\ zip'.off = zip.off
          /\ zip'.bad = zip.bad
          /\ zip.feed = 0
          /\ zip'.feed = 1
          /\ zip'.slot.off = zip.off
          /\ zip'.slot.ulen = ZERO
          /\ zip'.slot.clen = ZERO]_vars

\* zip_meta succeeded after an earlier entry was written.
C7_Witness ==
    /\ ret = 0
    /\ call.fn = "zip_meta"
    /\ zip.off # ZERO
    /\ zip.slot.off = zip.off

\* C8: an accepted zip_data call with len = 0 and last = 0 does nothing:
\* nothing is handed to the writer (no local header), and the session, with
\* feed and the record's crc, ulen and clen, is what it was.
C8_EmptyDataIsNoOp ==
    [][(ret' # -1 /\ call'.fn = "zip_data" /\ call'.len = 0
        /\ call'.last = 0) =>
          /\ out' = out
          /\ zip'.feed = zip.feed
          /\ zip'.slot = zip.slot
          /\ zip' = zip]_vars

\* The empty call was made before any data, when the local header is unwritten.
C8_Witness ==
    /\ ret # -1
    /\ call.fn = "zip_data"
    /\ call.len = 0
    /\ call.last = 0
    /\ zip.feed = 1

\* C9: the entry of a file whose read failed is in no record of the central
\* directory, is not among the entries the end record counts, and is freed
\* once; and when the writer took all that was written up to the moment the
\* record was discarded, the end of its deflate stream and then its data
\* descriptor were written before that moment.
C9_ReadErrorEntryOmitted ==
    \A n \in DOMAIN heap : ReadError(n) =>
        /\ \A i \in DOMAIN zip.head : zip.head[i].name # n
        /\ \A j \in DOMAIN out :
              /\ out[j].kind \in {"central", "cname", "zip64", "stamp"}
                    => out[j].ent # n
              /\ out[j].kind = "end" => out[j].ent = Len(zip.head)
        /\ heap[n].frees = 1
        /\ (\A j \in 1 .. heap[n].at : out[j].ok) =>
              \E j, k \in 1 .. heap[n].at :
                  /\ j < k
                  /\ What(out[j]) = <<"deflate", n, TRUE>>
                  /\ What(out[k]) = <<"desc", n, FALSE>>

\* An archive is complete that holds the data of a file whose read failed.
C9_Witness ==
    /\ zip.id # ID
    /\ ret = 0
    /\ \E n \in DOMAIN heap :
          /\ ReadError(n)
          /\ \E j \in DOMAIN out : What(out[j]) = <<"desc", n, FALSE>>
    /\ \E j \in DOMAIN out : out[j].kind = "end"

\* C10: a read error does not set bad, which only a failure of the writer
\* does; when the writer has not failed, zip_entry and zip_close return 0
\* and every file added after the one whose read failed is written, is
\* counted, and is in the central directory once the session is closed.
C10_ReadErrorDoesNotAbort ==
    (\E n \in DOMAIN heap : ReadError(n)) =>
        /\ zip.bad = (IF Failed THEN 1 ELSE 0)
        /\ ~Failed =>
              /\ (ret # -1 /\ call.fn \in {"zip_entry", "zip_close"}) => ret = 0
              /\ \A m \in DOMAIN heap :
                    (GoodFile(m) /\ \E n \in 1 .. (m - 1) : ReadError(n)) =>
                        /\ \E i \in DOMAIN zip.head : zip.head[i].name = m
                        /\ \E j \in DOMAIN out :
                              What(out[j]) = <<"local", m, FALSE>>
                        /\ \E j \in DOMAIN out :
                              What(out[j]) = <<"desc", m, FALSE>>
                        /\ zip.id # ID =>
                              \E j \in DOMAIN out :
                                  What(out[j]) = <<"central", m, FALSE>>

\* A session is closed without error after a read failed and a later file
\* was added.
C10_Witness ==
    /\ zip.id # ID
    /\ ret = 0
    /\ \E n \in DOMAIN heap : \E m \in (n + 1) .. Len(heap) :
          /\ ReadError(n)
          /\ GoodFile(m)
          /\ \E j \in DOMAIN out : What(out[j]) = <<"central", m, FALSE>>

\* the record before out[j], and what stands for it before the first
C11_Prev(j) ==
    IF j = 1 THEN [kind |-> "desc", ent |-> 0, fin |-> FALSE] ELSE out[j - 1]

\* out[j] may follow the record prev in the layout of a zip file.
C11_Follows(prev, rec) ==
    CASE rec.kind = "local" -> prev.kind = "desc"
      [] rec.kind = "name" -> prev.kind = "local" /\ prev.ent = rec.ent
      [] rec.kind = "deflate" ->
            /\ prev.ent = rec.ent
            /\ \/ prev.kind = "name"
               \/ prev.kind = "deflate" /\ ~prev.fin
      [] rec.kind = "desc" ->
            prev.kind = "deflate" /\ prev.fin /\ prev.ent = rec.ent
      [] rec.kind = "central" -> prev.kind \in {"desc", "stamp"}
      [] rec.kind = "cname" -> prev.kind = "central" /\ prev.ent = rec.ent
      [] rec.kind = "zip64" -> prev.kind = "cname" /\ prev.ent = rec.ent
      [] rec.kind = "stamp" -> prev.kind = "zip64" /\ prev.ent = rec.ent
      [] rec.kind = "xend" -> prev.kind \in {"desc", "stamp"}
      [] rec.kind = "loc" -> prev.kind = "xend"
      [] rec.kind = "end" -> prev.kind \in {"desc", "stamp", "loc"}
      [] OTHER -> FALSE

\* the entries of the records of out of one kind, in their order
RECURSIVE C11_Entries(_, _)
C11_Entries(o, kind) ==
    IF o = <<>> THEN <<>>
    ELSE (IF Head(o).kind = kind THEN <<Head(o).ent>> ELSE <<>>)
         \o C11_Entries(Tail(o), kind)

\* the entries of seq that are in the set keep, in their order
RECURSIVE C11_Only(_, _)
C11_Only(seq, keep) ==
    IF seq = <<>> THEN <<>>
    ELSE (IF Head(seq) \in keep THEN <<Head(seq)>> ELSE <<>>)
         \o C11_Only(Tail(seq), keep)

\* C11: when the writer has not failed, what it was handed is in the order
\* of the zip layout: for each entry its local header, its name, its
\* deflate output up to the end of the stream and its data descriptor, with
\* nothing of another entry in between; then the central directory, one
\* record (header, name, zip64 field, time stamps) per entry in the order
\* the entries were completed; then the zip64 end record and locator, if
\* any; and the end record last.
C11_WireOrder ==
    ~Failed =>
        /\ \A j \in DOMAIN out :
              /\ C11_Follows(C11_Prev(j), out[j])
              /\ out[j].kind \in {"central", "xend", "end"} => zip.id # ID
              /\ out[j].kind = "end" => j = Len(out)
        /\ zip.id # ID =>
              /\ out[Len(out)].kind = "end"
              /\ C11_Entries(out, "central")
                    = [i \in DOMAIN zip.head |-> zip.head[i].name]
              /\ C11_Entries(out, "central")
                    = C11_Only(C11_Entries(out, "desc"),
                               {zip.head[i].name : i \in DOMAIN zip.head})

\* An archive of two entries was completed without error.
C11_Witness ==
    /\ zip.id # ID
    /\ ~Failed
    /\ Len(zip.head) >= 2
    /\ out[Len(out)].kind = "end"

\* the bytes the writer took in the invocations o
RECURSIVE C12_Taken(_)
C12_Taken(o) ==
    IF o = <<>> THEN 0
    ELSE (IF Head(o).ok THEN Head(o).size ELSE 0) + C12_Taken(Tail(o))

\* C12: before and after every call, off is the sum of the sizes of the
\* invocations of put() that returned 0; and a call made with bad set
\* leaves off what it was.
C12_OffsetCountsTaken ==
    [][/\ zip.off = U64(C12_Taken(out))
       /\ zip'.off = U64(C12_Taken(out'))
       /\ zip.bad # 0 => zip'.off = zip.off]_vars

\* Calls went on after the writer failed with part of an entry written.
C12_Witness ==
    /\ ret = 1
    /\ call.fn \in {"zip_entry", "zip_data", "zip_close"}
    /\ call.pre.bad = 1
    /\ zip.off # ZERO

\* what PUT2, PUT4 and PUT8 stored, read back
Val2(words) == words[1]
Val4(words) == <<words[2], words[1]>>
Val8(words) == <<words[2] + B16 * (words[3] + B16 * words[4]), words[1]>>

\* the 8-byte values of the payload of a zip64 field
RECURSIVE C13_Values(_)
C13_Values(words) ==
    IF Len(words) < 4 THEN <<>>
    ELSE <<Val8(SubSeq(words, 1, 4))>>
         \o C13_Values(SubSeq(words, 5, Len(words)))

C13_Over(v) == Ge64(v, MAX32)

\* the record of the header table of the entry ent
C13_Head(ent) ==
    CHOOSE h \in {zip.head[i] : i \in DOMAIN zip.head} : h.name = ent

\* the values of h that do not fit four bytes, in the order of the field
C13_Overflowing(h) ==
    (IF C13_Over(h.ulen) THEN <<h.ulen>> ELSE <<>>)
    \o (IF C13_Over(h.clen) THEN <<h.clen>> ELSE <<>>)
    \o (IF C13_Over(h.off) THEN <<h.off>> ELSE <<>>)

\* the record at out[j .. j + 3] is the one zip_central is to write for h
C13_Record(j, h) ==
    /\ out[j + 1].kind = "cname" /\ out[j + 2].kind = "zip64"
    /\ out[j + 3].kind = "stamp"
    /\ out[j + 2].size = 2 * Len(out[j + 2].data)
    /\ out[j + 2].size # 0
          <=> C13_Over(h.ulen) \/ C13_Over(h.clen) \/ C13_Over(h.off)
    /\ out[j + 2].size # 0 =>
          /\ Val2(SubSeq(out[j + 2].data, 1, 1)) = 1
          /\ Val2(SubSeq(out[j + 2].data, 2, 2)) = out[j + 2].size - 4
          /\ C13_Values(SubSeq(out[j + 2].data, 3, Len(out[j + 2].data)))
                = C13_Overflowing(h)
    /\ Val4(out[j].data.ulen) = IF C13_Over(h.ulen) THEN MAX32 ELSE h.ulen
    /\ Val4(out[j].data.clen) = IF C13_Over(h.clen) THEN MAX32 ELSE h.clen
    /\ Val4(out[j].data.off) = IF C13_Over(h.off) THEN MAX32 ELSE h.off
    /\ Val2(out[j].data.xlen) = out[j + 2].size + out[j + 3].size

\* C13: a record of the central directory has a zip64 field exactly when
\* the uncompressed length, the compressed length or the offset of the
\* local header of its entry is 2^32 - 1 or more; the field holds the
\* values that are, in the order uncompressed, compressed, offset; and
\* the four-byte fields hold 0xFFFFFFFF for those values and the value
\* itself for the others.
C13_Zip64Field ==
    \A j \in DOMAIN out :
        out[j].kind = "central" /\ j + 3 <= Len(out) /\ ~Failed
            => C13_Record(j, C13_Head(out[j].ent))

\* A record was written for an entry of which two values overflow and one
\* does not.
C13_Witness ==
    \E j \in DOMAIN out :
        /\ out[j].kind = "zip64"
        /\ out[j].size = 20
        /\ out[Len(out)].kind = "stamp"

\* the length a data descriptor holds, in four or in eight bytes
C14_Val(words) == IF Len(words) = 4 THEN Val8(words) ELSE Val4(words)

\* the value of a record of the directory: the k-th of the zip64 field
\* when the four-byte field holds 0xFFFFFFFF
C14_Central(field, zip64, k) ==
    IF Val4(field) = MAX32
    THEN C13_Values(SubSeq(zip64.data, 3, Len(zip64.data)))[k]
    ELSE Val4(field)

\* the descriptor desc agrees with the record at out[j .. j + 2]
C14_Agree(desc, j) ==
    /\ desc.size \in {16, 24}
    /\ desc.size = 24 <=> out[j + 2].size # 0
    /\ Len(desc.data.clen) = (IF desc.size = 24 THEN 4 ELSE 2)
    /\ Len(desc.data.ulen) = (IF desc.size = 24 THEN 4 ELSE 2)
    /\ Val4(desc.data.crc) = Val4(out[j].data.crc)
    /\ C14_Val(desc.data.ulen)
          = C14_Central(out[j].data.ulen, out[j + 2], 1)
    /\ C14_Val(desc.data.clen)
          = C14_Central(out[j].data.clen, out[j + 2],
                        IF Val4(out[j].data.ulen) = MAX32 THEN 2 ELSE 1)

\* C14: the data descriptor of an entry of the central directory holds the
\* crc, the compressed length and the uncompressed length of the record of
\* the directory, and it is in the form of 24 bytes exactly when that
\* record has a zip64 field, so also when only the offset of the local
\* header is 2^32 - 1 or more.
C14_DescriptorAgrees ==
    \A i \in DOMAIN out : \A j \in DOMAIN out :
        /\ out[i].kind = "desc" /\ out[i].ok
        /\ out[j].kind = "central" /\ out[j].ent = out[i].ent
        /\ j + 2 <= Len(out) /\ out[j + 2].ok
        => C14_Agree(out[i], j)

\* An entry of small lengths at an offset of 2^32 - 1 got a descriptor of
\* 24 bytes and a record in the directory.
C14_Witness ==
    \E i \in DOMAIN out : \E j \in DOMAIN out :
        /\ out[i].kind = "desc" /\ out[i].size = 24
        /\ ~C13_Over(Val8(out[i].data.ulen))
        /\ ~C13_Over(Val8(out[i].data.clen))
        /\ out[j].kind = "zip64" /\ out[j].ent = out[i].ent
        /\ out[j].size = 12

\* the length of the directory when zip_end was called
C15_Len == Sub64(call.pre.off, call.beg)

C15_Promoted ==
    call.pre.hnum >= 65535 \/ C13_Over(C15_Len) \/ C13_Over(call.beg)

\* the end record holds the count, the length and the offset, or the
\* largest value of the field for those that do not fit
C15_End(end) ==
    /\ end.kind = "end" /\ end.size = 22
    /\ Val2(end.data.here)
          = (IF call.pre.hnum >= 65535 THEN 65535 ELSE call.pre.hnum)
    /\ Val2(end.data.total) = Val2(end.data.here)
    /\ Val4(end.data.len) = IF C13_Over(C15_Len) THEN MAX32 ELSE C15_Len
    /\ Val4(end.data.beg) = IF C13_Over(call.beg) THEN MAX32 ELSE call.beg

\* the zip64 end record and its locator
C15_Zip64(xend, loc) ==
    /\ xend.kind = "xend" /\ xend.size = 56
    /\ loc.kind = "loc" /\ loc.size = 20
    /\ Val8(loc.data.off) = call.pre.off
    /\ Val8(xend.data.here) = U64(call.pre.hnum)
    /\ Val8(xend.data.total) = U64(call.pre.hnum)
    /\ Val8(xend.data.len) = C15_Len
    /\ Val8(xend.data.beg) = call.beg

\* C15: zip_end writes the zip64 end record and its locator exactly when
\* the count of entries is 65535 or more, or the length or the offset of
\* the directory is 2^32 - 1 or more; the locator holds the offset where
\* the zip64 end record starts; the end record follows in either case and
\* is the last record, holding 0xFFFF or 0xFFFFFFFF in the fields of the
\* values that do not fit and the values themselves in the others.
C15_EndRecords ==
    call.fn = "zip_end" =>
        /\ Len(out) = call.pre.nout + (IF C15_Promoted THEN 3 ELSE 1)
        /\ C15_End(out[Len(out)])
        /\ C15_Promoted => C15_Zip64(out[Len(out) - 2], out[Len(out) - 1])

\* The directory of 65534 entries was 2^32 - 1 bytes or more and started
\* below 2^32 - 1.
C15_Witness ==
    /\ call.fn = "zip_end"
    /\ call.pre.hnum = 65534
    /\ C13_Over(C15_Len)
    /\ ~C13_Over(call.beg)
    /\ out[Len(out)].kind = "end"

C16_Directory == {"central", "cname", "zip64", "stamp"}

\* the bytes of the records of o of the kinds in kinds
RECURSIVE C16_Bytes(_, _)
C16_Bytes(o, kinds) ==
    IF o = <<>> THEN 0
    ELSE (IF Head(o).kind \in kinds THEN Head(o).size ELSE 0)
         + C16_Bytes(Tail(o), kinds)

\* the records written before the directory, or before the end record when
\* the directory is empty
C16_Before ==
    SubSeq(out, 1,
           (CHOOSE j \in DOMAIN out :
               /\ out[j].kind \in {"central", "end"}
               /\ \A i \in 1 .. j - 1 : out[i].kind \notin {"central", "end"})
           - 1)

\* C16: when an archive has been closed and the writer has not failed,
\* the end record holds the offset of the first record of the directory,
\* the count of bytes of the records of the directory and the count of
\* those records.
C16_EndDescribesDirectory ==
    zip.id # ID /\ ~Failed =>
        /\ out[Len(out)].kind = "end"
        /\ Val4(out[Len(out)].data.beg) = U64(C12_Taken(C16_Before))
        /\ Val4(out[Len(out)].data.len) = U64(C16_Bytes(out, C16_Directory))
        /\ Val2(out[Len(out)].data.here)
              = Len(C11_Entries(out, "central"))
        /\ Val2(out[Len(out)].data.total)
              = Len(C11_Entries(out, "central"))

\* An archive of two entries of different kinds was closed.
C16_Witness ==
    /\ zip.id # ID
    /\ ~Failed
    /\ Len(C11_Entries(out, "central")) = 2
    /\ C16_Bytes(out, {"stamp"}) = 48

\* C17: closing a session to which no entry was added writes the end
\* record and nothing else: 22 bytes, with the counts of entries, the
\* length and the offset of the directory all zero.
C17_EmptyArchive ==
    /\ call.fn = "zip_close" /\ ret = 0
    /\ call.pre.nout = 0 /\ call.pre.feed = 0
    => /\ Len(out) = 1
       /\ out[1].kind = "end" /\ out[1].size = 22 /\ out[1].ok
       /\ Len(out[1].data.sig \o out[1].data.disk \o out[1].data.start
              \o out[1].data.here \o out[1].data.total \o out[1].data.len
              \o out[1].data.beg \o out[1].data.comment) = 11
       /\ Val4(out[1].data.sig) = <<1541, 19280>>
       /\ Val2(out[1].data.here) = 0
       /\ Val2(out[1].data.total) = 0
       /\ Val4(out[1].data.len) = ZERO
       /\ Val4(out[1].data.beg) = ZERO
       /\ Val2(out[1].data.comment) = 0
       /\ zip.off = U64(22)

\* A session was closed with nothing written and no entry begun.
C17_Witness ==
    /\ call.fn = "zip_close" /\ ret = 0
    /\ call.pre.nout = 0 /\ call.pre.feed = 0
    /\ calls = 1

\* C18: when zip_close has completed the archive of a session opened with
\* zip_pipe, put() was invoked with a NULL pointer for the data.
C18_PutToldOfCompletion ==
    /\ call.fn = "zip_close" /\ ret = 0
    /\ zip.put # "zip_write"
    => \E j \in call.pre.nout + 1 .. Len(out) : out[j].null

\* the records of the header table, and the one of the entry being fed
C19_Stored ==
    {zip.head[i] : i \in DOMAIN zip.head}
    \cup (IF zip.feed # 0 THEN {zip.slot} ELSE {})

\* C19: on a session that is not being fed, zip_meta returns -1 for a path
\* of 65536 bytes and for an os other than 3 and 10, and accepts a path of
\* 65535 bytes; and every record stored in the header table, by zip_meta
\* or for a file, has a name length of at most 65535 that is the length of
\* the name it stores.
C19_NameLengths ==
    /\ zip.id = ID /\ zip.feed = 0 /\ trap = "" =>
          \A a \in {b \in MetaArgs : ~IsNull(b[1])} :
              zip_meta(World(0), ZIP, a[1], a[2], MetaMore(a[2])).ret
                 = (IF PathLen(a[1][1]) > 65535 \/ a[2] \notin {3, 10}
                    THEN -1 ELSE 0)
    /\ \A h \in C19_Stored :
          /\ h.nlen <= 65535
          /\ h.nlen = PathLen(heap[h.name].text)
          /\ heap[h.name].len = h.nlen + 1

\* zip_meta took a path of 65535 bytes.
C19_Witness ==
    /\ call.fn = "zip_meta" /\ ret = 0
    /\ zip.slot.nlen = 65535
    /\ PathLen(call.path[1]) = 65535

\* C20: when an entry fed by the caller was completed and the writer has
\* not failed, the uncompressed length of its record is the count of the
\* bytes handed to zip_data for it and the crc of its record is the CRC-32
\* of those bytes taken as one sequence, in the header table and in the
\* data descriptor; so they do not depend on how the bytes were split
\* into calls, nor on calls without data in between.
C20_LengthAndCrcOfWhole ==
    zip.feed = 0 /\ ~Failed /\ trap = "" =>
        /\ Len(zip.head) = 1
        /\ zip.head[1].ulen = U64(Len(call.fed))
        /\ zip.head[1].crc
              = (IF call.fed = <<>> THEN ZERO
                 ELSE crc32(ZERO, Ptr(call.fed), Len(call.fed)))
        /\ \E j \in DOMAIN out :
              /\ out[j].kind = "desc"
              /\ C14_Val(out[j].data.ulen) = U64(Len(call.fed))
              /\ Val4(out[j].data.crc) = zip.head[1].crc

\* Two bytes were handed over one at a time, with a call without data
\* among the three calls, and the entry was completed.
C20_Witness ==
    /\ zip.feed = 0 /\ ~Failed /\ trap = ""
    /\ call.fn = "zip_data" /\ call.len = 1
    /\ call.fed = <<104, 105>>
    /\ calls = 3

\* the messages of m that report a write error
RECURSIVE C21_WriteErrors(_)
C21_WriteErrors(m) ==
    IF m = <<>> THEN 0
    ELSE (IF Head(m).text = "write error" THEN 1 ELSE 0)
         + C21_WriteErrors(Tail(m))

\* C21 as stated: when the writer has failed, bad is set and one "write
\* error" message was issued, for a session of zip_open and for one of
\* zip_pipe.
C21_OneWriteErrorMessage ==
    Failed => zip.bad = 1 /\ C21_WriteErrors(msgs) = 1

\* C21, amended: when the writer has failed, bad is set; one "write error"
\* message was issued if the session writes with zip_write (zip_open), and
\* none if it writes with a put() registered by zip_pipe; and no such
\* message is issued while the writer has not failed.
C21_MessageOnlyFromZipWrite ==
    /\ Failed => zip.bad = 1
    /\ C21_WriteErrors(msgs)
          = (IF Failed /\ zip.put = "zip_write" THEN 1 ELSE 0)

\* The put() of a zip_pipe session failed and calls went on.
C21_Witness ==
    /\ Failed
    /\ zip.put # "zip_write"
    /\ zip.bad = 1
    /\ calls >= 2

\* the low 32 bits of a time
C22_Low32(t) == <<t[1] % B16, t[2]>>

\* the record at out[j .. j + 3] ends with the time stamps of a Unix entry
\* h, in a field of the given id
C22_Stamp(j, h, id) ==
    /\ out[j + 3].kind = "stamp"
    /\ out[j + 3].size = 12
    /\ Len(out[j + 3].data) = 6
    /\ Val2(SubSeq(out[j + 3].data, 1, 1)) = id
    /\ Val2(SubSeq(out[j + 3].data, 2, 2)) = 8
    /\ Val4(SubSeq(out[j + 3].data, 3, 4)) = C22_Low32(h.atime)
    /\ Val4(SubSeq(out[j + 3].data, 5, 6)) = C22_Low32(h.mtime)
    /\ Val2(out[j].data.xlen) = out[j + 2].size + 12

\* the records of the directory of Unix entries end with such a field
C22_Stamps(id) ==
    \A j \in DOMAIN out :
        /\ out[j].kind = "central" /\ j + 3 <= Len(out) /\ out[j + 3].ok
        /\ C13_Head(out[j].ent).os = 3
        => C22_Stamp(j, C13_Head(out[j].ent), id)

C23_Skipped ==
    { <<<<"n">>, "could not stat">>,
      <<<<"u">>, "could not open for reading">>,
      <<<<"p">>, "is not a file or directory">>,
      <<<<"L">>, "file name is too long">> }

\* zip_entry returned r in the current state: it issued the message text
\* and left the archive as it was
C23_NoEffect(r, text) ==
    /\ r.ret = zip.bad
    /\ r.w.out = out
    /\ r.w.heap = heap
    /\ r.w.trap = ""
    /\ r.w.z.off = zip.off
    /\ r.w.z.hnum = zip.hnum
    /\ r.w.z.head = zip.head
    /\ r.w.z.bad = zip.bad
    /\ r.w.z.omit = 0
    /\ r.w.z.feed = 0
    /\ r.w.msgs = Append(msgs, [text |-> text,
                                to |-> IF IsNull(zip.log) THEN "stderr"
                                       ELSE "log"])

\* what the records of o are
C23_What(o) == [i \in DOMAIN o |-> What(o[i])]

\* zip_entry returned rd for the directory d, re for the file e and then
\* rf for the file f: the walk of d wrote what e and f are written as, and
\* issued the messages for u, p, x, L and for the read error of e
C23_WalkGoesOn(rd, rf) ==
    /\ C23_What(rd.w.out) = C23_What(rf.w.out)
    /\ rd.w.z.hnum = rf.w.z.hnum
    /\ rd.w.z.bad = 0 /\ rd.w.z.omit = 0
    /\ Len(rd.w.msgs) = Len(msgs) + 5
    /\ Len(rf.w.msgs) = Len(msgs) + 1

\* C23: in a state where zip_entry is accepted, zip_entry on an object
\* that cannot be stat'ed, on a file that cannot be opened, on an object
\* that is neither a file nor a directory and on a file with a name of
\* more than 65535 bytes issues a message and writes nothing, leaves off,
\* the header table and bad as they were and omit clear; and with bad
\* clear, the walk of a directory that holds such objects goes on to the
\* files after them.
C23_SkippedWithoutEffect ==
    zip.id = ID /\ zip.feed = 0 /\ trap = "" =>
        /\ zip.omit = 0
        /\ \A s \in C23_Skipped :
              C23_NoEffect(zip_entry(World(0), ZIP, Ptr(s[1])), s[2])
        /\ zip.bad = 0 =>
              C23_WalkGoesOn(
                  zip_entry(World(0), ZIP, Ptr(<<"d">>)),
                  zip_entry(zip_entry(World(0), ZIP, Ptr(<<"e">>)).w,
                            ZIP, Ptr(<<"f">>)))

\* zip_entry walked the directory that holds the four objects, and an
\* object that cannot be stat'ed was named to zip_entry before.
C23_Witness ==
    /\ call.fn = "zip_entry" /\ ret = 0
    /\ call.path = Ptr(<<"d">>)
    /\ ~Failed
    /\ zip.hnum = 1
    /\ \E i \in DOMAIN msgs : msgs[i].text = "file name is too long"
    /\ msgs[1].text = "could not stat"

\* the local headers in o
C24_Locals(o) == Len(C11_Entries(o, "local"))

\* C24: for an entry fed by the caller, a call writes the local header
\* exactly when none was written yet and the call is zip_data with
\* len > 0 or last set, or zip_close; so it is written once, a call with
\* len = 0 and last clear does not write it, and it comes before all
\* compressed data of the entry.
C24_HeaderOnce ==
    [][/\ C24_Locals(out') <= 1
       /\ C24_Locals(out')
             = C24_Locals(out)
               + (IF /\ zip.feed = 1
                     /\ \/ call'.fn = "zip_close"
                        \/ call'.fn = "zip_data"
                           /\ (call'.len > 0 \/ call'.last = 1)
                  THEN 1 ELSE 0)
       /\ zip.feed = 1 <=> C24_Locals(out) = 0
       /\ \A j \in DOMAIN out' :
             out'[j].kind = "deflate" => out'[1].kind = "local" /\ j > 2]_vars

\* Two calls without data and with last clear were made for the entry,
\* and the third, with last set, wrote the local header.
C24_Witness ==
    /\ call.fn = "zip_data" /\ call.last = 1 /\ call.fed = <<>>
    /\ calls = 3
    /\ ~Failed
    /\ C24_Locals(out) = 1

\* the local header of the entry ent is at out[i], and off is the offset
\* at which its first byte was written
C25_LocalAt(ent, off) ==
    \E i \in DOMAIN out :
        /\ out[i].kind = "local" /\ out[i].ent = ent /\ out[i].ok
        /\ \A k \in DOMAIN out :
              out[k].kind = "local" /\ out[k].ent = ent => k = i
        /\ off = U64(C12_Taken(SubSeq(out, 1, i - 1)))

\* C25: the offset held by every record written to the directory, and by
\* every record of the table whose local header was written, is the
\* offset in the stream of the first byte of the local header of its
\* entry.
C25_OffsetOfLocalHeader ==
    /\ \A j \in DOMAIN out :
          out[j].kind = "central" /\ out[j].ok
          => C25_LocalAt(out[j].ent, Val4(out[j].data.off))
    /\ zip.id = ID =>
          \A i \in 1 .. zip.hnum :
              (\E k \in DOMAIN out :
                  /\ out[k].kind = "local" /\ out[k].ok
                  /\ out[k].ent = zip.head[i].name)
              => C25_LocalAt(zip.head[i].name, zip.head[i].off)

\* The directory holds the record of an entry whose local header follows
\* the bytes of an entry that was omitted after a read error.
C25_Witness ==
    \E i \in DOMAIN out : \E j \in DOMAIN out :
        /\ out[i].kind = "local" /\ heap[out[i].ent].text = <<"e">>
        /\ out[j].kind = "central" /\ out[j].ok
        /\ heap[out[j].ent].text = <<"f">>
        /\ Val4(out[j].data.off) = U64(C12_Taken(SubSeq(out, 1, i + 3)))
        /\ \A k \in DOMAIN out : out[k].kind = "central" => k = j

\* the records written between the name of the entry of the descriptor
\* out[i] and that descriptor
C26_Data(i) ==
    SubSeq(out,
           (CHOOSE l \in 1 .. i :
               out[l].kind = "name" /\ out[l].ent = out[i].ent) + 1,
           i - 1)

\* C26: the compressed length in every descriptor that was written is
\* the number of bytes given to the writer between the name that follows
\* the local header and the descriptor, all of them output of deflate for
\* that entry.
C26_CompressedLength ==
    \A i \in DOMAIN out :
        out[i].kind = "desc" /\ out[i].ok =>
            /\ \E l \in 1 .. i :
                  /\ out[l].kind = "name" /\ out[l].ent = out[i].ent
                  /\ out[l - 1].kind = "local" /\ out[l - 1].size = 30
            /\ \A k \in DOMAIN C26_Data(i) :
                  /\ C26_Data(i)[k].kind = "deflate"
                  /\ C26_Data(i)[k].ent = out[i].ent
                  /\ C26_Data(i)[k].ok
            /\ C14_Val(out[i].data.clen) = U64(C12_Taken(C26_Data(i)))

\* An entry was completed by its second zip_data call, and both calls
\* gave compressed data to the writer.
C26_Witness ==
    /\ call.fn = "zip_data" /\ ret = 0 /\ call.last = 1
    /\ out[Len(out)].kind = "desc" /\ out[Len(out)].ok
    /\ \E j \in DOMAIN out : \E k \in DOMAIN out :
          /\ j < k
          /\ out[j].kind = "deflate" /\ out[j].size > 0 /\ ~out[j].fin
          /\ out[k].kind = "deflate" /\ out[k].size > 0 /\ out[k].fin
          /\ out[k - 1].kind = "deflate" /\ ~out[k - 1].fin
          /\ out[k - 1].size = 0

\* the entry ent has a record of the kind kind that the writer took
C27_Wrote(o, ent, kind) ==
    \E j \in DOMAIN o :
        /\ o[j].kind = kind /\ o[j].ent = ent /\ o[j].ok
        /\ kind = "deflate" => o[j].fin

\* the local header, the compressed data and the descriptor of ent were
\* all written
C27_Complete(o, ent) ==
    /\ C27_Wrote(o, ent, "local")
    /\ C27_Wrote(o, ent, "deflate")
    /\ C27_Wrote(o, ent, "desc")

\* C27 as stated: every record of the header table belongs to an entry
\* whose local header, compressed data and descriptor were all written.
C27_TableOnlyWritten ==
    zip.id = ID =>
        \A i \in 1 .. zip.hnum : C27_Complete(out, zip.head[i].name)

\* C27: a write that fails is the last invocation of the writer, in that
\* call and in every later one; every record written to the directory
\* belongs to an entry whose local header, compressed data and descriptor
\* were all written; but zip_entry on a readable file still appends a
\* record to the header table when a write error is latched.
C27_NothingWrittenAfterError ==
    [][/\ \A j \in DOMAIN out' : ~out'[j].ok => j = Len(out')
       /\ zip.bad # 0 => out' = out
       /\ \A j \in DOMAIN out' :
             out'[j].kind = "central" => C27_Complete(out', out'[j].ent)
       /\ /\ zip.bad # 0
          /\ call'.fn = "zip_entry" /\ ret' # -1
          /\ call'.path = Ptr(<<"f">>)
          => /\ zip'.hnum = zip.hnum + 1
             /\ ~C27_Complete(out', zip'.head[zip'.hnum].name)]_vars

\* The local header of a file failed to be written, and a later zip_entry
\* on a file added a second record to the header table.
C27_Witness ==
    /\ call.fn = "zip_entry" /\ ret = 1
    /\ call.path = Ptr(<<"f">>)
    /\ call.pre.bad = 1 /\ call.pre.hnum = 1
    /\ zip.hnum = 2
    /\ Len(out) = 1 /\ out[1].kind = "local" /\ ~out[1].ok

\* zip_data() has returned.
C28_Returned == call.fn = "zip_data_end" \/ zip.bad # 0

\* zip_data() can make one more pass of its loop, or leave the loop.
C28_GoesOn ==
    /\ zip.bad = 0 /\ trap = ""
    /\ \/ call.fn \in {"zip_data", "zip_data_pass"} /\ call.code = Z_OK
       \/ call.fn = "zip_data_pass" /\ call.code # Z_OK

\* zip_entry on the directory d, in which the k-th write fails when k is
\* not 0, has returned as r says: no assertion of zip_deflate has failed
\* and, when no write failed, the data of both files end with the end of
\* a deflate stream.
C28_FilesEnd(r, k) ==
    /\ r.w.trap = ""
    /\ r.ret = (IF k = 0 THEN 0 ELSE 1)
    /\ k = 0 =>
          Len(C11_Only(C11_Entries(SubSeq(r.w.out, Len(out) + 1,
                                          Len(r.w.out)), "desc"),
                       {n \in DOMAIN r.w.heap :
                           \E j \in DOMAIN r.w.out :
                               /\ r.w.out[j].kind = "deflate"
                               /\ r.w.out[j].ent = n
                               /\ r.w.out[j].fin /\ r.w.out[j + 1].kind = "desc"}))
             = 2

\* the passes a buffer of len bytes can take: each but the last three
\* takes 2 * CHUNK bytes or more
C28_Passes(len) == len[1] \div ((2 * CHUNK) \div B16) + 3

C29_Local(h) ==
    zip_local([World(0) EXCEPT !.z.slot = h, !.z.off = h.off,
                               !.out = <<>>]).out[1]

\* C29: the version needed to extract is 45 in a record of the directory
\* when the uncompressed length, the compressed length or the offset of
\* the local header is 2^32 - 1 or more, and 20 otherwise; in the local
\* header of the same entry it is 45 when the offset is 2^32 - 1 or more,
\* and 20 otherwise, whatever the lengths.
C29_VersionNeeded ==
    \A j \in DOMAIN out :
        out[j].kind = "central" =>
            /\ Val2(out[j].data.need)
                  = (IF \/ C13_Over(C13_Head(out[j].ent).ulen)
                        \/ C13_Over(C13_Head(out[j].ent).clen)
                        \/ C13_Over(C13_Head(out[j].ent).off)
                     THEN 45 ELSE 20)
            /\ C29_Local(C13_Head(out[j].ent)).kind = "local"
            /\ Val2(C29_Local(C13_Head(out[j].ent)).data.need)
                  = (IF C13_Over(C13_Head(out[j].ent).off) THEN 45 ELSE 20)

\* An entry of 2^32 - 1 bytes at an offset below 2^32 - 1: version 45 in
\* the directory, version 20 in its local header.
C29_Witness ==
    \E j \in DOMAIN out :
        /\ out[j].kind = "central"
        /\ Val2(out[j].data.need) = 45
        /\ C13_Head(out[j].ent).ulen = MAX32
        /\ ~C13_Over(C13_Head(out[j].ent).clen)
        /\ ~C13_Over(C13_Head(out[j].ent).off)
        /\ Val2(C29_Local(C13_Head(out[j].ent)).data.need) = 20

\* the flag word for a level: bits 3 and 11, and the code of the level in
\* bits 1 and 2
C30_Flags(level) ==
    8 + 2048 + 2 * (IF level >= 9 THEN 1
                    ELSE IF level = 2 THEN 2
                    ELSE IF level = 1 THEN 3
                    ELSE 0)

\* C30: every local header and every record of the directory that a call
\* writes holds the flag word of the level of the session, which the call
\* leaves as it is: bits 3 and 11, with 01 in bits 2 and 1 for a level of
\* 9 or more, 10 for level 2, 11 for level 1 and 00 for any other level.
C30_FlagWord ==
    [][/\ zip'.level = zip.level
       /\ \A j \in Len(out) + 1 .. Len(out') :
             out'[j].kind \in {"local", "central"} =>
                 Val2(out'[j].data.flags) = C30_Flags(zip.level)]_vars

\* The archives of sessions of level 1 hold a local header and a record
\* of the directory of the same entry, both with the flag word 0x80E.
C30_Witness ==
    \E i \in DOMAIN out : \E j \in DOMAIN out :
        /\ out[i].kind = "local" /\ out[j].kind = "central"
        /\ out[i].ent = out[j].ent
        /\ Val2(out[i].data.flags) = 2062
        /\ Val2(out[j].data.flags) = 2062
        /\ out[Len(out)].kind = "end" /\ out[Len(out)].ok

\* the local headers and the records of the directory that the step
\* writes all hold the flag word v
C31_Written(v) ==
    \A j \in Len(out) + 1 .. Len(out') :
        out'[j].kind \in {"local", "central"} =>
            Val2(out'[j].data.flags) = v

\* C31 as stated: in a session of level 1 the flag word is 0x0E08 = 3592.
C31_FlagWord0E08 == [][zip.level = 1 => C31_Written(3592)]_vars

\* C31: in a session of level 1 the flag word of every local header and
\* of every record of the directory is 0x080E = 2062, stored as the bytes
\* 0E 08.
C31_FlagWord080E ==
    [][zip.level = 1 =>
          /\ C31_Written(2062)
          /\ PUT2_bytes(2056 + LEVEL(zip)) = <<14, 8>>]_vars

\* A session of level 1 was closed with two entries in its directory,
\* whose local headers and records hold the flag word 0x080E.
C31_Witness ==
    /\ zip.level = 1
    /\ call.fn = "zip_close" /\ ret = 0
    /\ Len(C11_Entries(out, "central")) = 2
    /\ \A j \in DOMAIN out :
          out[j].kind \in {"local", "central"} =>
              PUT2_bytes(Val2(out[j].data.flags)) = <<14, 8>>

\* the invocations of put() with the flag 2
C32_Hints == {j \in DOMAIN out : out[j].flag = 2}

C33_OmitClear ==
    [][/\ zip.omit = 0 /\ zip'.omit = 0
       /\ /\ call'.fn = "zip_data" /\ ret' = 0
          /\ call'.last = 1
          => /\ zip'.hnum = zip.hnum + 1
             /\ zip'.head[zip'.hnum] = [zip.slot EXCEPT
                                           !.crc = zip'.head[zip'.hnum].crc,
                                           !.ulen = zip'.head[zip'.hnum].ulen,
                                           !.clen = zip'.head[zip'.hnum].clen]
       /\ zip'.hnum >= zip.hnum \/ zip'.id # ID]_vars

\* zip_entry on the file e returned 1: its read failed, then the write of
\* its compressed data or of its descriptor failed, and the entry was not
\* counted.
C33_Witness ==
    /\ call.fn = "zip_entry" /\ ret = 1
    /\ call.path = Ptr(<<"e">>)
    /\ call.pre.bad = 0
    /\ \E i \in DOMAIN msgs : msgs[i].text = "read error"
    /\ out[Len(out)].kind \in {"deflate", "desc"} /\ ~out[Len(out)].ok
    /\ zip.hnum = call.pre.hnum
    /\ zip.omit = 0

=============================================================================
